---- MODULE Spec2Model ----
(***************************************************************************)
(* State-machine model of the SpeedTracker sensor-fusion engine            *)
(* (src/unnamed/part_000).                                                 *)
(*                                                                         *)
(* Numbers are fixed point, 1000 units to one SI unit:                     *)
(*   time                ms          speed               mm/s              *)
(*   acceleration        mm/s^2      distance, accuracy  mm                *)
(*   uncertainty (sigma) mm/s        reliability score   1/1000            *)
(* A product of two scaled quantities is divided by 1000 (rounded down),   *)
(* where the JavaScript source computes in double precision.               *)
(***************************************************************************)
EXTENDS Integers, Sequences, FiniteSets, TLC

VARIABLES
    tracker,   \* the SpeedTracker object: a record of its fields
    now,       \* performance.now(), in ms
    pending,   \* startRun calls suspended in `await this.startCalibration()`
    prev,      \* history: the tracker as the last operation found it
    op,        \* history: the last operation and its inputs
    obs        \* history: what the environment has delivered so far

vars == <<tracker, now, pending, prev, op, obs>>

----------------------------------------------------------------------------
(* Program constants                                                       *)

motionThreshold == 500
noiseThreshold == 2000
accelDriftRate == 500
gpsSpeedHistoryMaxSize == 10
calibrationTime == 3000
calibrationPeriod == 50
maxRealisticSpeed == 100000
defaultGpsAccuracy == 20000

----------------------------------------------------------------------------
(* Arithmetic helpers                                                      *)

Min(a, b) == IF a < b THEN a ELSE b

Max(a, b) == IF a > b THEN a ELSE b

Abs(a) == IF a < 0 THEN -a ELSE a

\* a * b / 1000 of two fixed-point numbers, rounded toward zero
Mul(a, b) == IF a * b >= 0 THEN (a * b) \div 1000 ELSE -((-(a * b)) \div 1000)

RECURSIVE SqrtBetween(_, _, _)
SqrtBetween(n, lo, hi) ==
    IF lo >= hi THEN lo
    ELSE LET mid == (lo + hi + 1) \div 2
         IN  IF mid * mid <= n THEN SqrtBetween(n, mid, hi)
             ELSE SqrtBetween(n, lo, mid - 1)

\* Math.sqrt on non-negative integers, rounded down
Sqrt(n) == SqrtBetween(n, 0, 40000)

RECURSIVE Sum(_)
Sum(s) == IF s = <<>> THEN 0 ELSE Head(s) + Sum(Tail(s))

\* Array.prototype.sort((a, b) => a - b) on numbers: the i-th element of the
\* result is the value with fewer than i elements below it and at least i
\* elements not above it
SortAsc(s) ==
    [i \in 1..Len(s) |->
        CHOOSE v \in {s[j] : j \in 1..Len(s)} :
            /\ Cardinality({j \in 1..Len(s) : s[j] < v}) < i
            /\ Cardinality({j \in 1..Len(s) : s[j] <= v}) >= i]

\* Array.prototype.slice(-n)
LastN(s, n) == IF Len(s) <= n THEN s ELSE SubSeq(s, Len(s) - n + 1, Len(s))

\* an array that is pushed to and never shifted
Unshifted(s, n) == s

\* Array.prototype.shift() once the array is longer than n
ShiftTo(s, n) == IF Len(s) > n THEN Tail(s) ELSE s

SeqMap(F(_), s) == [i \in 1..Len(s) |-> F(s[i])]

SeqFilter(P(_), s) == SelectSeq(s, P)

----------------------------------------------------------------------------
(* Metric targets (updateMetrics, lines 986-1002)                          *)

\* id, unit and target of each checkSpeedMetric call, in call order;
\* targets in 1/1000 km/h or mph
SpeedTargets ==
    << [id |-> "0-40kph",   unit |-> "kph", target |-> 40000,  fromSpeed |-> 0],
       [id |-> "0-60kph",   unit |-> "kph", target |-> 60000,  fromSpeed |-> 0],
       [id |-> "0-80kph",   unit |-> "kph", target |-> 80000,  fromSpeed |-> 0],
       [id |-> "0-100kph",  unit |-> "kph", target |-> 100000, fromSpeed |-> 0],
       [id |-> "0-120kph",  unit |-> "kph", target |-> 120000, fromSpeed |-> 0],
       [id |-> "0-200kph",  unit |-> "kph", target |-> 200000, fromSpeed |-> 0],
       [id |-> "0-30mph",   unit |-> "mph", target |-> 30000,  fromSpeed |-> 0],
       [id |-> "0-60mph",   unit |-> "mph", target |-> 60000,  fromSpeed |-> 0],
       [id |-> "60-100mph", unit |-> "mph", target |-> 100000, fromSpeed |-> 60000],
       [id |-> "0-100mph",  unit |-> "mph", target |-> 100000, fromSpeed |-> 0],
       [id |-> "0-150mph",  unit |-> "mph", target |-> 150000, fromSpeed |-> 0] >>

\* id and target (mm) of each checkDistanceMetric call, in call order
DistanceTargets ==
    << [id |-> "1000m",   target |-> 1000000],
       [id |-> "1/8mile", target |-> 201168],
       [id |-> "1/4mile", target |-> 402336],
       [id |-> "1mile",   target |-> 1609344] >>

SpeedIds == {SpeedTargets[i].id : i \in 1..Len(SpeedTargets)}

DistanceIds == {DistanceTargets[i].id : i \in 1..Len(DistanceTargets)}

\* speedKph = velocity * 3.6, in 1/1000 km/h
SpeedKph(v) == (v * 36) \div 10

\* speedMph = speedKph * 0.621371, in 1/1000 mph (the factor kept to 4 digits)
SpeedMph(v) == ((SpeedKph(v) \div 10) * 6214) \div 1000

----------------------------------------------------------------------------
(* The object after `new SpeedTracker()` (constructor, initMetrics,        *)
(* initSensors).  null is 0 for runStartTime and launchTime (both are      *)
(* tested for truthiness only) and <<>> for lastGpsPosition.               *)

NewTracker(geolocation) ==
    [ isRunning |-> FALSE,
      isCalibrated |-> FALSE,
      runStartTime |-> 0,
      velocity |-> 0,
      distance |-> 0,
      lastTimestamp |-> 0,
      calibrationOffset |-> [x |-> 0, y |-> 0, z |-> 0],
      sensorData |-> <<>>,
      accelerationBuffer |-> <<>>,
      velocityBuffer |-> <<>>,
      isMoving |-> FALSE,
      stationaryTime |-> 0,
      stationaryDuration |-> 0,
      lastValidAcceleration |-> 0,
      gpsSpeed |-> 0,
      gpsLastUpdate |-> 0,
      gpsAvailable |-> geolocation,
      gpsWatchId |-> FALSE,
      lastGpsPosition |-> <<>>,
      gpsDistance |-> 0,
      lastDriftCheckTime |-> 0,
      consecutiveZeroGPS |-> 0,
      fusedSpeed |-> 0,
      speedEstimateUncertainty |-> 10000,
      gpsAccuracy |-> 0,
      lastFusionTime |-> 0,
      gpsSpeedHistory |-> <<>>,
      gpsReliabilityScore |-> 0,
      accelIntegratedSpeed |-> 0,
      accelSpeedUncertainty |-> 0,
      lastAccelTimestamp |-> 0,
      wasMovingAtStart |-> FALSE,
      startupGpsReadings |-> <<>>,
      startupComplete |-> FALSE,
      launchDetected |-> FALSE,
      launchTime |-> 0,
      launchAccelerationBuffer |-> <<>>,
      speedAchieved |-> {},
      runDistanceAchievements |-> {},
      speedHistory |-> [id \in SpeedIds |-> 0],
      distanceHistory |-> [id \in DistanceIds |-> 0] ]

----------------------------------------------------------------------------
(* applyFiltering (lines 490-552)                                          *)

Magnitude(data) == Sqrt(data.x * data.x + data.y * data.y + data.z * data.z)

\* lines 511-522: mean of the sorted last 10 magnitudes with 5% trimmed at
\* each end (slice(trimCount, -trimCount || undefined))
FilteredMagnitude(buffer, magnitude) ==
    IF Len(buffer) >= 5
    THEN LET recentMagnitudes ==
                 SortAsc(SeqMap(LAMBDA d : d.magnitude, LastN(buffer, 10)))
             trimCount == (Len(recentMagnitudes) * 5) \div 100
             trimmedData ==
                 IF trimCount = 0 THEN recentMagnitudes
                 ELSE SubSeq(recentMagnitudes, trimCount + 1,
                             Len(recentMagnitudes) - trimCount)
         IN  Sum(trimmedData) \div Len(trimmedData)
    ELSE magnitude

\* lines 524-545: the sticky moving / stationary classification
MotionGate(t, filteredMagnitude) ==
    LET g == IF ~t.isMoving /\ filteredMagnitude > motionThreshold * 2
             THEN [t EXCEPT !.isMoving = TRUE, !.stationaryTime = 0]
             ELSE IF t.isMoving /\ filteredMagnitude * 10 < motionThreshold * 3
             THEN IF t.stationaryTime + 1 > 50
                  THEN [t EXCEPT !.stationaryTime = @ + 1,
                                 !.isMoving = FALSE,
                                 !.velocity = IF t.isRunning THEN 0 ELSE @]
                  ELSE [t EXCEPT !.stationaryTime = @ + 1]
             ELSE IF filteredMagnitude * 2 < motionThreshold
             THEN [t EXCEPT !.stationaryTime = @ + 1]
             ELSE [t EXCEPT !.stationaryTime = 0]
    IN  [g EXCEPT !.lastValidAcceleration = filteredMagnitude]

\* Returns the tracker and the processed sample.  A rejected spike is
\* returned without an isMoving field; every reader tests the field for
\* truthiness, so undefined is FALSE here.
\* lines 548-552
Gated(t, data, filteredMagnitude) ==
    [t |-> t,
     out |-> [x |-> data.x, y |-> data.y, z |-> data.z,
              timestamp |-> data.timestamp,
              filteredMagnitude |-> filteredMagnitude,
              isMoving |-> t.isMoving]]

\* lines 513-552
Smooth(t, data, filteredMagnitude) ==
    Gated(MotionGate(t, filteredMagnitude), data, filteredMagnitude)

\* lines 510-552 for every sample, without the noise test of line 503
BufferedUnrejected(t, data, magnitude) ==
    Smooth(t, data, FilteredMagnitude(t.accelerationBuffer, magnitude))

\* lines 500-552: t has the sample's magnitude in its buffer
Buffered(t, data, magnitude) ==
    IF magnitude > noiseThreshold * 5
    THEN [t |-> t,
          out |-> [x |-> data.x, y |-> data.y, z |-> data.z,
                   timestamp |-> data.timestamp,
                   filteredMagnitude |-> t.lastValidAcceleration,
                   isMoving |-> FALSE]]
    ELSE Smooth(t, data, FilteredMagnitude(t.accelerationBuffer, magnitude))

\* lines 491-498
Buffer(t, data, magnitude) ==
    [t EXCEPT !.accelerationBuffer =
        ShiftTo(Append(@, [magnitude |-> magnitude,
                           raw |-> [x |-> data.x, y |-> data.y, z |-> data.z]]),
                20)]

applyFiltering(t, data) ==
    Buffered(Buffer(t, data, Magnitude(data)), data, Magnitude(data))

----------------------------------------------------------------------------
(* recalibrateBias (lines 1008-1040)                                       *)

\* a / b rounded toward zero, b > 0
Div(a, b) == IF a >= 0 THEN a \div b ELSE -((-a) \div b)

recalibrateBias(t) ==
    IF Len(t.accelerationBuffer) < 5 THEN t
    ELSE LET count == Len(t.accelerationBuffer)
             avgResidualX == Div(Sum(SeqMap(LAMBDA d : d.raw.x, t.accelerationBuffer)), count)
             avgResidualY == Div(Sum(SeqMap(LAMBDA d : d.raw.y, t.accelerationBuffer)), count)
             avgResidualZ == Div(Sum(SeqMap(LAMBDA d : d.raw.z, t.accelerationBuffer)), count)
             blendFactor == 100
         IN  [t EXCEPT !.calibrationOffset =
                 [x |-> @.x + Mul(avgResidualX, blendFactor),
                  y |-> @.y + Mul(avgResidualY, blendFactor),
                  z |-> @.z + Mul(avgResidualZ, blendFactor)]]

----------------------------------------------------------------------------
(* Event detection (lines 1042-1141)                                       *)

\* a launch declared on ten strong samples and the speed alone
detectLaunchOnBurst(t, acceleration, isMoving, timeElapsed, clock) ==
    LET pushed == Append(t.launchAccelerationBuffer,
                         [acceleration |-> acceleration, isMoving |-> isMoving,
                          timestamp |-> timeElapsed])
        buffer == SeqFilter(LAMBDA d : d.timestamp > timeElapsed - 2000, pushed)
        t1 == [t EXCEPT !.launchAccelerationBuffer = buffer]
    IN  IF Len(buffer) >= 10
        THEN LET recentData == LastN(buffer, 10)
                 sustainedAcceleration ==
                     \A i \in 1..Len(recentData) :
                         recentData[i].acceleration > 1500 /\ recentData[i].isMoving
                 isAccelerating == t.velocity > 2000
             IN  IF sustainedAcceleration /\ isAccelerating
                 THEN [t1 EXCEPT !.launchDetected = TRUE, !.launchTime = clock]
                 ELSE t1
        ELSE t1

detectLaunch(t, acceleration, isMoving, timeElapsed, clock) ==
    LET pushed == Append(t.launchAccelerationBuffer,
                         [acceleration |-> acceleration, isMoving |-> isMoving,
                          timestamp |-> timeElapsed])
        buffer == SeqFilter(LAMBDA d : d.timestamp > timeElapsed - 2000, pushed)
        t1 == [t EXCEPT !.launchAccelerationBuffer = buffer]
    IN  IF Len(buffer) >= 10
        THEN LET recentData == LastN(buffer, 10)
                 sustainedAcceleration ==
                     \A i \in 1..Len(recentData) :
                         recentData[i].acceleration > 1500 /\ recentData[i].isMoving
                 isAccelerating == t.velocity > 2000
                 longerBuffer ==
                     SeqFilter(LAMBDA d : d.timestamp > timeElapsed - 500, buffer)
                 strong ==
                     SeqFilter(LAMBDA d : d.acceleration > 1000 /\ d.isMoving,
                               longerBuffer)
                 sustainedLaunch ==
                     /\ Len(longerBuffer) >= 25
                     /\ Len(strong) * 10 >= Len(longerBuffer) * 8
             IN  IF sustainedAcceleration /\ isAccelerating /\ sustainedLaunch
                 THEN [t1 EXCEPT !.launchDetected = TRUE, !.launchTime = clock]
                 ELSE t1
        ELSE t1

\* a checkpoint that is reported whenever the speed is at its target
checkSpeedMetricRepeating(t, id, currentSpeed, targetSpeed, fromSpeed) ==
    IF currentSpeed >= targetSpeed
    THEN [t EXCEPT !.speedAchieved = @ \cup {id},
                   !.speedHistory[id] = @ + 1]
    ELSE t

\* a check that leaves out the checkpoints with a lower bound
checkSpeedMetricFromRest(t, id, currentSpeed, targetSpeed, fromSpeed) ==
    IF fromSpeed = 0 /\ id \notin t.speedAchieved /\ currentSpeed >= targetSpeed
    THEN [t EXCEPT !.speedAchieved = @ \cup {id},
                   !.speedHistory[id] = @ + 1]
    ELSE t

\* fromSpeed is a parameter of the source function that its body never reads
checkSpeedMetric(t, id, currentSpeed, targetSpeed, fromSpeed) ==
    IF id \notin t.speedAchieved /\ currentSpeed >= targetSpeed
    THEN [t EXCEPT !.speedAchieved = @ \cup {id},
                   !.speedHistory[id] = @ + 1]
    ELSE t

checkDistanceMetric(t, id, currentDistance, targetDistance) ==
    IF currentDistance >= targetDistance /\ id \notin t.runDistanceAchievements
    THEN [t EXCEPT !.runDistanceAchievements = @ \cup {id},
                   !.distanceHistory[id] = @ + 1]
    ELSE t

\* the speed a checkpoint is compared with (lines 960-961)
SpeedIn(unit, v) == IF unit = "kph" THEN SpeedKph(v) ELSE SpeedMph(v)

\* lines 987-997: the checkSpeedMetric calls.  Each call reads the speed,
\* which none of them changes, and writes the flag and the history of its
\* own id only: the i-th call is applied to the tracker that the first one
\* finds, and the results are put together.
SpeedChecked(t, i) ==
    checkSpeedMetric(t, SpeedTargets[i].id,
                     SpeedIn(SpeedTargets[i].unit, t.velocity),
                     SpeedTargets[i].target, SpeedTargets[i].fromSpeed)

CheckSpeedMetrics(t) ==
    [t EXCEPT
        !.speedAchieved =
            UNION {SpeedChecked(t, i).speedAchieved : i \in 1..Len(SpeedTargets)},
        !.speedHistory =
            [id \in SpeedIds |->
                LET i == CHOOSE k \in 1..Len(SpeedTargets) : SpeedTargets[k].id = id
                IN  SpeedChecked(t, i).speedHistory[id]]]

\* lines 999-1002: the checkDistanceMetric calls, likewise
DistanceChecked(t, i) ==
    checkDistanceMetric(t, DistanceTargets[i].id, t.distance,
                        DistanceTargets[i].target)

CheckDistanceMetrics(t) ==
    [t EXCEPT
        !.runDistanceAchievements =
            UNION {DistanceChecked(t, i).runDistanceAchievements :
                      i \in 1..Len(DistanceTargets)},
        !.distanceHistory =
            [id \in DistanceIds |->
                LET i == CHOOSE k \in 1..Len(DistanceTargets) :
                             DistanceTargets[k].id = id
                IN  DistanceChecked(t, i).distanceHistory[id]]]

----------------------------------------------------------------------------
(* updateMetrics (lines 770-1006), one operator per step                   *)

\* line 804-805
GpsReliable(t, timestamp) ==
    /\ t.gpsAvailable
    /\ timestamp - t.gpsLastUpdate < 2000
    /\ t.gpsReliabilityScore > 300

\* a gap tick that kept the smoothing buffer
GapResetKeepingBuffer(t, timeElapsed) ==
    LET anchor == IF t.gpsAvailable /\ t.gpsReliabilityScore > 300
                  THEN t.gpsSpeed ELSE 0
    IN  [t EXCEPT !.velocity = anchor,
                  !.fusedSpeed = anchor,
                  !.accelIntegratedSpeed = anchor,
                  !.speedEstimateUncertainty = 5000,
                  !.lastTimestamp = timeElapsed]

\* lines 780-796: the tick after a screen lock
GapReset(t, timeElapsed) ==
    LET anchor == IF t.gpsAvailable /\ t.gpsReliabilityScore > 300
                  THEN t.gpsSpeed ELSE 0
    IN  [t EXCEPT !.velocity = anchor,
                  !.fusedSpeed = anchor,
                  !.accelIntegratedSpeed = anchor,
                  !.velocityBuffer = <<>>,
                  !.speedEstimateUncertainty = 5000,
                  !.lastTimestamp = timeElapsed]

\* lines 807-812
StationaryAccounting(t, sd, dt) ==
    IF ~sd.isMoving /\ sd.filteredMagnitude < motionThreshold
    THEN [t EXCEPT !.stationaryDuration = @ + dt]
    ELSE [t EXCEPT !.stationaryDuration = 0]

\* line 815
HardZeroCondition(t, gpsReliable) ==
    t.stationaryDuration > 3000 /\ (~gpsReliable \/ t.gpsSpeed < 500)

\* a hard zero that left the accelerometer speed alone
HardZeroKeepingAccelSpeed(t, timeElapsed) ==
    [recalibrateBias([t EXCEPT !.velocity = 0,
                               !.fusedSpeed = 0,
                               !.velocityBuffer = <<>>,
                               !.speedEstimateUncertainty = 500])
        EXCEPT !.lastTimestamp = timeElapsed]

\* lines 819-833
HardZero(t, timeElapsed) ==
    [recalibrateBias([t EXCEPT !.velocity = 0,
                               !.fusedSpeed = 0,
                               !.accelIntegratedSpeed = 0,
                               !.velocityBuffer = <<>>,
                               !.speedEstimateUncertainty = 500])
        EXCEPT !.lastTimestamp = timeElapsed]

\* lines 840-846
Integrate(t, sd, dt) ==
    IF sd.isMoving /\ sd.filteredMagnitude > motionThreshold
    THEN [t EXCEPT !.accelIntegratedSpeed = @ + Mul(sd.filteredMagnitude, dt),
                   !.speedEstimateUncertainty = @ + Mul(accelDriftRate, dt)]
    ELSE t

\* lines 849-876
PrimaryEstimate(t, sd, gpsReliable) ==
    IF gpsReliable
    THEN LET gpsWeight == Min(800, 500 + Mul(t.gpsReliabilityScore, 300))
             accelWeight == 1000 - gpsWeight
             v == Mul(gpsWeight, t.gpsSpeed) + Mul(accelWeight, t.accelIntegratedSpeed)
             accelDrift == Abs(t.accelIntegratedSpeed - t.gpsSpeed)
         IN  [t EXCEPT !.velocity = v,
                       !.fusedSpeed = v,
                       !.accelIntegratedSpeed =
                           IF accelDrift > 2000
                           THEN Mul(700, @) + Mul(300, t.gpsSpeed)
                           ELSE @]
    ELSE IF ~sd.isMoving \/ sd.filteredMagnitude * 2 < motionThreshold
         THEN LET v == Mul(t.accelIntegratedSpeed, 980)
              IN  [t EXCEPT !.velocity = v,
                            !.accelIntegratedSpeed = v,
                            !.fusedSpeed = v]
         ELSE [t EXCEPT !.velocity = t.accelIntegratedSpeed,
                        !.fusedSpeed = t.accelIntegratedSpeed]

\* line 882
GpsZeroCondition(t, gpsReliable) ==
    gpsReliable /\ t.gpsSpeed < 300 /\ t.consecutiveZeroGPS >= 3

\* lines 881-888: "Check 1: GPS says we're stopped"
GpsZeroAnchor(t, gpsReliable, dt) ==
    IF GpsZeroCondition(t, gpsReliable)
    THEN [t EXCEPT !.velocity = 0,
                   !.fusedSpeed = 0,
                   !.accelIntegratedSpeed = 0,
                   !.velocityBuffer = <<>>,
                   !.stationaryDuration = @ + dt]
    ELSE t

\* lines 891-896
StillZeroCondition(t, sd, gpsReliable) ==
    /\ ~sd.isMoving
    /\ t.velocity < 2000
    /\ (gpsReliable /\ t.gpsSpeed < 1000) \/ t.velocity < 890

\* lines 890-902: "Check 2: No significant acceleration and low velocity"
StillZeroAnchor(t, sd, gpsReliable) ==
    IF StillZeroCondition(t, sd, gpsReliable)
    THEN [t EXCEPT !.velocity = 0,
                   !.fusedSpeed = 0,
                   !.accelIntegratedSpeed = 0]
    ELSE t

\* line 905
DriftCheckDue(t, timeElapsed) ==
    /\ timeElapsed - t.lastDriftCheckTime > 2000
    /\ t.gpsDistance > 0
    /\ t.distance > 5000

\* line 910: distanceError > 0.2 && gpsReliable
DistanceSnapCondition(t, gpsReliable) ==
    Abs(t.distance - t.gpsDistance) * 5 > t.distance /\ gpsReliable

\* lines 911-920
DistanceSnap(t) ==
    LET d == Max(t.distance, 100)
        outside == t.gpsDistance * 10 < d * 8 \/ t.gpsDistance * 10 > d * 12
    IN  IF outside
        THEN [t EXCEPT !.distance = t.gpsDistance,
                       !.velocityBuffer = <<>>,
                       !.velocity = t.gpsSpeed,
                       !.fusedSpeed = t.gpsSpeed,
                       !.accelIntegratedSpeed = t.gpsSpeed]
        ELSE [t EXCEPT !.distance = t.gpsDistance, !.velocityBuffer = <<>>]

\* lines 904-924: "Check 3: Periodic distance validation"
DistanceValidation(t, timeElapsed, gpsReliable) ==
    IF DriftCheckDue(t, timeElapsed)
    THEN [(IF DistanceSnapCondition(t, gpsReliable) THEN DistanceSnap(t) ELSE t)
             EXCEPT !.lastDriftCheckTime = timeElapsed]
    ELSE t

\* lines 926-937: the median of the last 5 velocities is written to velocity
Median(buffer) == SortAsc(buffer)[(Len(buffer) \div 2) + 1]

Smoothed(t, buffer) ==
    [t EXCEPT !.velocityBuffer = buffer,
              !.velocity = IF Len(buffer) >= 3 THEN Median(buffer) ELSE @]

DisplaySmoothing(t) == Smoothed(t, ShiftTo(Append(t.velocityBuffer, t.velocity), 5))

\* lines 939-947
Capped(t, gpsReliable) ==
    IF Abs(t.velocity) > maxRealisticSpeed
    THEN (IF gpsReliable THEN t.gpsSpeed ELSE 0)
    ELSE t.velocity

SanityCap(t, gpsReliable) ==
    [t EXCEPT !.velocity = Max(0, Capped(t, gpsReliable)),
              !.fusedSpeed = Max(0, Capped(t, gpsReliable)),
              !.accelIntegratedSpeed = Max(0, @)]

\* a distance update with the sign of the increment reversed
IntegrateDistanceBackwards(t, dt) ==
    IF t.velocity > 500
    THEN [t EXCEPT !.distance = @ - Mul(t.velocity, dt)]
    ELSE t

\* lines 954-957
IntegrateDistance(t, dt) ==
    IF t.velocity > 500
    THEN [t EXCEPT !.distance = @ + Mul(t.velocity, dt)]
    ELSE t

\* lines 949-952
LaunchDetection(t, sd, timeElapsed, clock) ==
    IF ~t.launchDetected
    THEN detectLaunch(t, sd.filteredMagnitude, sd.isMoving, timeElapsed, clock)
    ELSE t

\* lines 878-924: "ZERO SPEED ANCHORING"
ZeroAnchoring(t, sd, dt, timeElapsed, gpsReliable) ==
    DistanceValidation(
        StillZeroAnchor(GpsZeroAnchor(t, gpsReliable, dt), sd, gpsReliable),
        timeElapsed, gpsReliable)

\* lines 986-1004
CheckMetrics(t, timeElapsed) ==
    [CheckDistanceMetrics(CheckSpeedMetrics(t)) EXCEPT
        !.lastTimestamp = timeElapsed]

\* lines 836-1005: the tick from accelerometer integration to the end
FullUpdate(t, sd, dt, timeElapsed, gpsReliable, clock) ==
    CheckMetrics(
        IntegrateDistance(
            LaunchDetection(
                SanityCap(
                    DisplaySmoothing(
                        ZeroAnchoring(
                            PrimaryEstimate(Integrate(t, sd, dt), sd, gpsReliable),
                            sd, dt, timeElapsed, gpsReliable)),
                    gpsReliable),
                sd, timeElapsed, clock),
            dt),
        timeElapsed)

\* lines 814-1005: the tick once the stationary time is accounted
AfterAccounting(t, sd, dt, timeElapsed, gpsReliable, clock) ==
    IF HardZeroCondition(t, gpsReliable)
    THEN HardZero(t, timeElapsed)
    ELSE FullUpdate(t, sd, dt, timeElapsed, gpsReliable, clock)

\* lines 798-1005: a tick at most 0.5 s after the previous one
RegularTick(t, sd, dt, timeElapsed, clock) ==
    AfterAccounting(StationaryAccounting(t, sd, dt), sd, dt, timeElapsed,
                    GpsReliable(t, sd.timestamp), clock)

updateMetrics(t, sd, clock) ==
    IF t.runStartTime = 0 THEN t
    ELSE LET timeElapsed == sd.timestamp - t.runStartTime
             elapsed == timeElapsed - t.lastTimestamp
         IN  IF elapsed <= 0 THEN t
             ELSE IF elapsed > 500 THEN GapReset(t, timeElapsed)
             ELSE RegularTick(t, sd, Min(elapsed, 100), timeElapsed, clock)

----------------------------------------------------------------------------
(* processSensorData (lines 443-488); handleDeviceMotion passes            *)
(* timestamp = performance.now()                                           *)

\* lines 446-454
TrackAccelTime(t, data) ==
    LET timeSinceLastAccel == IF t.lastAccelTimestamp > 0
                              THEN data.timestamp - t.lastAccelTimestamp ELSE 0
    IN  [t EXCEPT !.lastAccelTimestamp = data.timestamp,
                  !.accelSpeedUncertainty =
                      IF timeSinceLastAccel > 500
                      THEN @ + Mul(timeSinceLastAccel, accelDriftRate * 2)
                      ELSE @]

\* lines 456-474: bias subtraction; 9.81 is subtracted from z of a sample
\* that includes gravity
Calibrate(t, data) ==
    [x |-> data.x - t.calibrationOffset.x,
     y |-> data.y - t.calibrationOffset.y,
     z |-> (IF data.isLinear THEN data.z ELSE data.z - 9810) - t.calibrationOffset.z,
     timestamp |-> data.timestamp]

\* sensorData keeps its newest entry only: nothing reads an older one
\* lines 476-487
Processed(t, sd, clock) ==
    IF t.isRunning
    THEN updateMetrics([t EXCEPT !.sensorData = <<sd>>], sd, clock)
    ELSE [t EXCEPT !.sensorData = <<sd>>]

FilterResult(f, clock) == Processed(f.t, f.out, clock)

processSensorData(t, data, clock) ==
    FilterResult(applyFiltering(TrackAccelTime(t, data), Calibrate(t, data)), clock)

----------------------------------------------------------------------------
(* GPS path (lines 554-754)                                                *)

\* lines 626-660
detectMovingStart(t) ==
    IF t.startupComplete THEN t
    ELSE LET t1 == [t EXCEPT !.startupComplete = TRUE]
             reliableReadings ==
                 SeqFilter(LAMBDA r : r.accuracy < 30000, t.startupGpsReadings)
         IN  IF Len(reliableReadings) = 0
             THEN [t1 EXCEPT !.wasMovingAtStart = FALSE]
             ELSE LET avgSpeed ==
                          Sum(SeqMap(LAMBDA r : r.speed, reliableReadings))
                              \div Len(reliableReadings)
                  IN  IF avgSpeed > 2000
                      THEN [t1 EXCEPT !.wasMovingAtStart = TRUE,
                                      !.fusedSpeed = avgSpeed,
                                      !.velocity = avgSpeed,
                                      !.accelIntegratedSpeed = avgSpeed,
                                      !.isCalibrated = TRUE,
                                      !.speedEstimateUncertainty = Mul(t.gpsAccuracy, 100)]
                      ELSE [t1 EXCEPT !.wasMovingAtStart = FALSE]

\* lines 576-579
StartupCheck(t, clock) ==
    IF \/ Len(t.startupGpsReadings) >= 3
       \/ clock - t.startupGpsReadings[1].timestamp > 2000
    THEN detectMovingStart(t)
    ELSE t

\* lines 567-580
CollectStartupReading(t, clock) ==
    IF t.startupComplete THEN t
    ELSE StartupCheck([t EXCEPT !.startupGpsReadings =
                          Append(@, [speed |-> t.gpsSpeed, accuracy |-> t.gpsAccuracy,
                                     timestamp |-> clock])],
                      clock)

\* line 681: the largest change of speed between neighbouring readings
MaxJump(speeds) ==
    LET jumps == {Abs(speeds[i + 1] - speeds[i]) : i \in 1..(Len(speeds) - 1)}
    IN  CHOOSE j \in jumps : \A k \in jumps : k <= j

\* the accuracy factor of lines 671-676 and the clamp of line 692, for a
\* window of any length: lines 664-667 left out
updateGpsReliabilityUnforced(t, clock) ==
    LET avgAccuracy ==
            Sum(SeqMap(LAMBDA r : r.accuracy, t.gpsSpeedHistory))
                \div Len(t.gpsSpeedHistory)
        r1 == IF avgAccuracy > 50000 THEN Mul(1000, 300)
              ELSE IF avgAccuracy > 20000 THEN Mul(1000, 700)
              ELSE IF avgAccuracy > 10000 THEN Mul(1000, 900)
              ELSE 1000
    IN  [t EXCEPT !.gpsReliabilityScore = Max(100, Min(1000, r1))]

\* lines 663-693; performance.now() is read again at line 688
updateGpsReliability(t, clock) ==
    IF Len(t.gpsSpeedHistory) < 2
    THEN [t EXCEPT !.gpsReliabilityScore = 300]
    ELSE LET avgAccuracy ==
                 Sum(SeqMap(LAMBDA r : r.accuracy, t.gpsSpeedHistory))
                     \div Len(t.gpsSpeedHistory)
             r1 == IF avgAccuracy > 50000 THEN Mul(1000, 300)
                   ELSE IF avgAccuracy > 20000 THEN Mul(1000, 700)
                   ELSE IF avgAccuracy > 10000 THEN Mul(1000, 900)
                   ELSE 1000
             maxJump == MaxJump(SeqMap(LAMBDA r : r.speed, t.gpsSpeedHistory))
             r2 == IF Len(t.gpsSpeedHistory) >= 3
                   THEN IF maxJump > 5000 THEN Mul(r1, 500)
                        ELSE IF maxJump > 3000 THEN Mul(r1, 700)
                        ELSE r1
                   ELSE r1
             timeSinceLast == clock - t.gpsLastUpdate
             r3 == IF timeSinceLast > 3000 THEN Mul(r2, 500)
                   ELSE IF timeSinceLast > 2000 THEN Mul(r2, 700)
                   ELSE r2
         IN  [t EXCEPT !.gpsReliabilityScore = Max(100, Min(1000, r3))]

\* line 709
GpsSpeedUncertainty(t) ==
    (Max(500, Mul(t.gpsAccuracy, 50)) * 1000) \div t.gpsReliabilityScore

\* line 717
KalmanGain(t) ==
    (t.speedEstimateUncertainty * 1000)
        \div Max(t.speedEstimateUncertainty + GpsSpeedUncertainty(t), 100)

\* line 728
FusionZeroCondition(t) ==
    t.consecutiveZeroGPS >= 3 /\ t.gpsSpeed < 500 /\ t.gpsReliabilityScore > 500

\* lines 703-742: the update proper
\* lines 703-725: predict and correct
Correct(t, clock) ==
    [t EXCEPT !.accelSpeedUncertainty = @ + Mul(accelDriftRate, clock - t.lastFusionTime),
              !.fusedSpeed = @ + Mul(KalmanGain(t), t.gpsSpeed - t.fusedSpeed),
              !.speedEstimateUncertainty = Mul(1000 - KalmanGain(t), @)]

\* lines 727-733
FusionZeroAnchor(t) ==
    IF FusionZeroCondition(t)
    THEN [t EXCEPT !.fusedSpeed = 0,
                   !.accelIntegratedSpeed = 0,
                   !.speedEstimateUncertainty = 500,
                   !.velocity = 0]
    ELSE t

\* lines 735-742; gpsSpeedUncertainty was computed at line 709
Publish(t, gpsSpeedUncertainty, clock) ==
    [t EXCEPT !.velocity = Max(0, t.fusedSpeed),
              !.accelIntegratedSpeed = t.fusedSpeed,
              !.accelSpeedUncertainty = gpsSpeedUncertainty,
              !.lastFusionTime = clock]

\* lines 703-742: the update proper
KalmanUpdate(t, clock) ==
    Publish(FusionZeroAnchor(Correct(t, clock)), GpsSpeedUncertainty(t), clock)

\* lines 696-743
performSensorFusion(t, clock) ==
    IF t.lastFusionTime = 0 \/ clock - t.lastFusionTime <= 0
    THEN [t EXCEPT !.lastFusionTime = clock]
    ELSE KalmanUpdate(t, clock)

\* lines 561-603: a fix whose speed is a number >= 0 (null is -1 here)
\* lines 582-591
RecordSpeed(t, clock) ==
    [t EXCEPT !.gpsSpeedHistory =
        ShiftTo(Append(@, [speed |-> t.gpsSpeed, accuracy |-> t.gpsAccuracy,
                           timestamp |-> clock]),
                gpsSpeedHistoryMaxSize)]

\* lines 596-600
CountZeroGps(t) ==
    [t EXCEPT !.consecutiveZeroGPS = IF t.gpsSpeed < 300 THEN @ + 1 ELSE 0]

HandleGpsSpeed(t, position, clock) ==
    performSensorFusion(
        CountZeroGps(
            updateGpsReliability(
                RecordSpeed(
                    CollectStartupReading(
                        [t EXCEPT !.gpsSpeed = position.speed, !.gpsAvailable = TRUE],
                        clock),
                    clock),
                clock)),
        clock)

\* lines 745-754: fixes lie on one meridian and latitude is measured in mm
\* of arc, for which the haversine formula gives the difference of latitudes
calculateDistance(lat1, lat2) == Abs(lat2 - lat1)

\* lines 605-617
AccumulateGpsDistance(t, position) ==
    IF t.lastGpsPosition # <<>> /\ t.isRunning
    THEN LET distance == calculateDistance(t.lastGpsPosition[1].latitude,
                                           position.latitude)
         IN  IF distance > 0 /\ distance < 100000
             THEN [t EXCEPT !.gpsDistance = @ + distance]
             ELSE t
    ELSE t

\* position: latitude, speed (-1 for null), accuracy (0 for absent)
\* lines 556-559
StampFix(t, position, clock) ==
    [t EXCEPT !.gpsLastUpdate = clock,
              !.gpsAccuracy = IF position.accuracy = 0 THEN defaultGpsAccuracy
                              ELSE position.accuracy]

\* the speed block of lines 561-603 without the test of line 560
UseSpeedUnchecked(t, position, clock) == HandleGpsSpeed(t, position, clock)

\* lines 561-603
UseSpeed(t, position, clock) ==
    IF position.speed >= 0 THEN HandleGpsSpeed(t, position, clock) ELSE t

handleGPSUpdate(t, position, clock) ==
    [AccumulateGpsDistance(UseSpeed(StampFix(t, position, clock), position, clock),
                           position)
        EXCEPT !.lastGpsPosition =
                   <<[latitude |-> position.latitude, timestamp |-> clock]>>]

----------------------------------------------------------------------------
(* Run life cycle (lines 248-418, 1523-1557)                               *)

\* lines 254-275
WatchGps(t) ==
    IF t.gpsAvailable /\ ~t.gpsWatchId THEN [t EXCEPT !.gpsWatchId = TRUE] ELSE t

\* lines 304-339: what startRun does once calibration is over or skipped
BeginRun(t, clock) ==
    LET t1 == IF ~t.wasMovingAtStart
              THEN [t EXCEPT !.velocity = 0, !.fusedSpeed = 0, !.accelIntegratedSpeed = 0]
              ELSE t
    IN  [t1 EXCEPT !.isRunning = TRUE,
                   !.runStartTime = clock,
                   !.distance = 0,
                   !.gpsDistance = 0,
                   !.lastDriftCheckTime = 0,
                   !.consecutiveZeroGPS = 0,
                   !.speedEstimateUncertainty = IF t.wasMovingAtStart THEN 2000 ELSE 10000,
                   !.accelSpeedUncertainty = 0,
                   !.lastFusionTime = 0,
                   !.lastAccelTimestamp = 0,
                   !.lastTimestamp = 0,
                   !.accelerationBuffer = <<>>,
                   !.velocityBuffer = <<>>,
                   !.isMoving = t.wasMovingAtStart,
                   !.launchDetected = FALSE,
                   !.launchTime = 0,
                   !.launchAccelerationBuffer = <<>>,
                   !.speedAchieved = {},
                   !.runDistanceAchievements = {}]

\* lines 400-418
finishCalibration(t, calibrationData) ==
    IF Len(calibrationData) > 10
    THEN LET xValues == SortAsc(SeqMap(LAMBDA d : d.x, calibrationData))
             yValues == SortAsc(SeqMap(LAMBDA d : d.y, calibrationData))
             zValues == SortAsc(SeqMap(LAMBDA d : d.z, calibrationData))
             medianIndex == Len(calibrationData) \div 2
         IN  [t EXCEPT !.calibrationOffset = [x |-> xValues[medianIndex + 1],
                                              y |-> yValues[medianIndex + 1],
                                              z |-> zValues[medianIndex + 1]],
                       !.isCalibrated = TRUE]
    ELSE t

\* a stopRun that also forgets the calibration
stopRunUncalibrated(t) ==
    [t EXCEPT !.isRunning = FALSE,
              !.isCalibrated = FALSE,
              !.gpsWatchId = FALSE,
              !.startupComplete = FALSE,
              !.wasMovingAtStart = FALSE,
              !.startupGpsReadings = <<>>,
              !.gpsSpeedHistory = <<>>]

\* lines 350-371
stopRun(t) ==
    [t EXCEPT !.isRunning = FALSE,
              !.gpsWatchId = FALSE,
              !.startupComplete = FALSE,
              !.wasMovingAtStart = FALSE,
              !.startupGpsReadings = <<>>,
              !.gpsSpeedHistory = <<>>]

\* lines 1523-1557
confirmReset(t) ==
    LET t1 == [t EXCEPT !.speedHistory = [id \in SpeedIds |-> 0],
                        !.distanceHistory = [id \in DistanceIds |-> 0]]
        t2 == IF t1.isRunning THEN stopRun(t1) ELSE t1
    IN  [t2 EXCEPT !.velocity = 0,
                   !.fusedSpeed = 0,
                   !.accelIntegratedSpeed = 0,
                   !.speedEstimateUncertainty = 10000,
                   !.accelSpeedUncertainty = 0,
                   !.distance = 0,
                   !.gpsDistance = 0]

----------------------------------------------------------------------------
(* The calibration timer (startCalibration, lines 373-398).  A suspended   *)
(* startRun is [start, fired, data]: when its calibration began, how many  *)
(* times its 50 ms interval has fired, and its calibrationData.            *)

\* how many times the interval of c has fired by `clock` (it is cleared at
\* the first callback that sees elapsed >= calibrationTime)
FiredBy(c, clock) ==
    Min(calibrationTime \div calibrationPeriod, (clock - c.start) \div calibrationPeriod)

\* lines 387-389, for the callbacks of c due up to `clock`: each pushes a
\* copy of the newest sensorData entry, which no callback changes
CollectCalibration(t, c, clock) ==
    IF Len(t.sensorData) > 0
    THEN c.data \o [i \in 1..(FiredBy(c, clock) - c.fired) |->
                       [x |-> t.sensorData[1].x,
                        y |-> t.sensorData[1].y,
                        z |-> t.sensorData[1].z]]
    ELSE c.data

\* lines 391-395
CalibrationOver(c, clock) == clock - c.start >= calibrationTime

RECURSIVE RunTimers(_, _, _)
\* every interval callback due up to `clock`.  A calibration that is over
\* runs finishCalibration and then the rest of startRun (the promise
\* resolves), at the time of its last callback; calibrations end in the
\* order they began.
RunTimers(t, cs, clock) ==
    IF cs = <<>> THEN [t |-> t, pending |-> <<>>]
    ELSE IF CalibrationOver(Head(cs), clock)
    THEN RunTimers(BeginRun(finishCalibration(t, CollectCalibration(t, Head(cs), clock)),
                            Head(cs).start + calibrationTime),
                   Tail(cs), clock)
    ELSE [RunTimers(t, Tail(cs), clock) EXCEPT
             !.pending = <<[Head(cs) EXCEPT
                               !.fired = FiredBy(Head(cs), clock),
                               !.data = CollectCalibration(t, Head(cs), clock)]>> \o @]

----------------------------------------------------------------------------
(* Bounds of the model                                                     *)

\* the clock when the page has loaded
StartClock == 1000

\* at most this many startRun calls are suspended at once
MaxPending == 1

----------------------------------------------------------------------------
(* History variables                                                       *)

\* What a tick did, from the conditions of updateMetrics:
\*   path       "idle" (not running), "skip" (lines 771-776), "gap"
\*              (line 780), "hardzero" (line 815) or "full"
\*   gpsZero    the condition of line 882 held where it is tested
\*   stillZero  the condition of lines 891-896 held where it is tested
\*   snapped    the distance was snapped to the GPS distance (line 912)
NoFacts == [path |-> "none", gpsZero |-> FALSE, stillZero |-> FALSE, snapped |-> FALSE]

\* the facts of a tick that reaches the anchors; t2 is the tracker after
\* the primary estimate (the anchors leave the distances and the time of
\* the last validation alone)
AnchorFacts(t2, sd, dt, timeElapsed, gpsReliable) ==
    [path |-> "full",
     gpsZero |-> GpsZeroCondition(t2, gpsReliable),
     stillZero |-> StillZeroCondition(GpsZeroAnchor(t2, gpsReliable, dt), sd, gpsReliable),
     snapped |->
         /\ DriftCheckDue(t2, timeElapsed)
         /\ DistanceSnapCondition(t2, gpsReliable)]

\* t1 is the tracker once the stationary time is accounted
RegularFacts(t1, sd, dt, timeElapsed, gpsReliable) ==
    IF HardZeroCondition(t1, gpsReliable)
    THEN [NoFacts EXCEPT !.path = "hardzero"]
    ELSE AnchorFacts(PrimaryEstimate(Integrate(t1, sd, dt), sd, gpsReliable),
                     sd, dt, timeElapsed, gpsReliable)

\* t: the tracker when updateMetrics is entered; sd: the processed sample
TickFacts(t, sd) ==
    IF ~t.isRunning THEN [NoFacts EXCEPT !.path = "idle"]
    ELSE LET timeElapsed == sd.timestamp - t.runStartTime
             elapsed == timeElapsed - t.lastTimestamp
         IN  IF t.runStartTime = 0 \/ elapsed <= 0
             THEN [NoFacts EXCEPT !.path = "skip"]
             ELSE IF elapsed > 500 THEN [NoFacts EXCEPT !.path = "gap"]
             ELSE RegularFacts(StationaryAccounting(t, sd, Min(elapsed, 100)), sd,
                               Min(elapsed, 100), timeElapsed,
                               GpsReliable(t, sd.timestamp))

NoOp == [kind |-> "init", dt |-> 0, data |-> <<>>, facts |-> NoFacts]

\* steps: operations since the initial state
\* fixes, strong: GPS fixes delivered, and whether a sample was filtered to
\*   more than 2 * motionThreshold, since startRun was last called
\* quietSince: the time from which every sample has had magnitude 0, every
\*   fix has reported speed 0, samples have come at most 500 ms apart and
\*   the run has not been started, stopped or reset
\* lastSample: when the last sample came
\* slow: a tick of the current run has ended with the speed below 60 mph
\* trace: the inputs that have been recorded, from a startRun on
NewObs == [steps |-> 0, fixes |-> 0, strong |-> FALSE, quietSince |-> StartClock,
           lastSample |-> StartClock, slow |-> FALSE, trace |-> <<>>,
           stopped |-> FALSE, opened |-> FALSE, rebiased |-> FALSE,
           fresh |-> FALSE, calm |-> 0]

ObserveSample(o, out, clock) ==
    LET late == clock - Max(o.lastSample, o.quietSince) > 500
    IN  [o EXCEPT !.strong = @ \/ out.filteredMagnitude > 2 * motionThreshold,
                  !.calm = IF out.filteredMagnitude * 10 < motionThreshold * 3
                           THEN Min(50, @ + 1) ELSE 0,
                  !.lastSample = clock,
                  !.quietSince = IF late \/ Magnitude(out) # 0 THEN clock ELSE @]

\* facts: what the tick did; t: the tracker at its end
ObserveSpeed(o, facts, t) ==
    [o EXCEPT !.slow = @ \/ (/\ facts.path \in {"gap", "hardzero", "full"}
                             /\ SpeedMph(t.velocity) < 60000)]

ObserveFix(o, position, clock) ==
    [o EXCEPT !.fixes = @ + 1,
              !.quietSince = IF position.speed # 0 THEN clock ELSE @]

\* a run that begins while time passes restarts the quiet stretch
ObserveRunBegin(o, before, after) ==
    IF after.runStartTime # before.runStartTime
    THEN [o EXCEPT !.quietSince = after.runStartTime, !.slow = FALSE]
    ELSE o

\* rebiased: a calibration has replaced calibrationOffset (line 407) since
\* startRun was last called
ObserveTimers(o, before, after) ==
    [ObserveRunBegin(o, before, after) EXCEPT
        !.rebiased = @ \/ after.calibrationOffset # before.calibrationOffset]

----------------------------------------------------------------------------
(* Operations, as functions of the system state                            *)
(*   [tracker, now, pending, prev, op, obs].                               *)
(* Time passes (the calibration timers run) and then the handler runs to   *)
(* completion: the page has one event loop.                                *)

\* the page once `new SpeedTracker()` has returned (lines 1562-1566)
Boot ==
    [tracker |-> NewTracker(TRUE), now |-> StartClock, pending |-> <<>>,
     prev |-> NewTracker(TRUE), op |-> NoOp, obs |-> NewObs]

\* dt ms pass
Elapsed(st, dt, r) ==
    [st EXCEPT !.tracker = r.t,
               !.pending = r.pending,
               !.now = st.now + dt,
               !.obs = ObserveTimers(st.obs, st.tracker, r.t)]

Elapse(st, dt) == Elapsed(st, dt, RunTimers(st.tracker, st.pending, st.now + dt))

\* the sample as processSensorData passes it to updateMetrics
Filtered(t, data) == applyFiltering(TrackAccelTime(t, data), Calibrate(t, data))

\* the event loop at e once the handler has left the tracker as t
Sampled(e, dt, data, f, facts, t) ==
    [e EXCEPT !.tracker = t,
              !.prev = e.tracker,
              !.op = [kind |-> "tick", dt |-> dt, data |-> data, facts |-> facts],
              !.obs = [ObserveSpeed(ObserveSample(e.obs, f.out, e.now), facts, t)
                          EXCEPT !.steps = @ + 1,
                                 !.fresh = @ /\ ~e.tracker.isRunning]]

\* handleDeviceMotion (lines 420-441) on the event loop at e
HandleSample(e, dt, data, f) ==
    Sampled(e, dt, data, f, TickFacts(f.t, f.out),
            processSensorData(e.tracker, data, e.now))

Stamped(sample, clock) ==
    [x |-> sample.x, y |-> sample.y, z |-> sample.z,
     timestamp |-> clock, isLinear |-> sample.isLinear]

HandleSampleAt(e, dt, sample) ==
    HandleSample(e, dt, Stamped(sample, e.now),
                 Filtered(e.tracker, Stamped(sample, e.now)))

\* devicemotion event
DeviceMotion(st, dt, sample) == HandleSampleAt(Elapse(st, dt), dt, sample)

\* fresh: a moving start has been declared (line 644) and no tick of a run
\* has been processed since
ObserveStartup(o, before, after) ==
    [o EXCEPT !.fresh = @ \/ (~before.wasMovingAtStart /\ after.wasMovingAtStart)]

\* the event loop at e once the handler has left the tracker as t
Located(e, dt, position, t) ==
    [e EXCEPT !.tracker = t,
              !.prev = e.tracker,
              !.op = [kind |-> "gps", dt |-> dt, data |-> position,
                      facts |-> NoFacts],
              !.obs = [ObserveStartup(ObserveFix(e.obs, position, e.now), e.tracker, t)
                          EXCEPT !.steps = @ + 1]]

\* watchPosition callback (line 260)
HandlePosition(e, dt, position) ==
    Located(e, dt, position, handleGPSUpdate(e.tracker, position, e.now))

Position(st, dt, position) == HandlePosition(Elapse(st, dt), dt, position)

\* time passes without an input
Wait(st, dt) ==
    [Elapse(st, dt) EXCEPT
        !.prev = st.tracker,
        !.op = [kind |-> "idle", dt |-> dt, data |-> <<>>, facts |-> NoFacts],
        !.obs.steps = @ + 1]

\* startRun (lines 248-348), on a device whose motion listener is already
\* active (line 219): up to the await of line 299, or to the end
Start(st) ==
    LET calibrate == ~st.tracker.isCalibrated /\ ~st.tracker.wasMovingAtStart
    IN  [st EXCEPT !.tracker = IF calibrate THEN WatchGps(@)
                               ELSE BeginRun(WatchGps(@), st.now),
                   !.pending = IF calibrate
                               THEN Append(@, [start |-> st.now, fired |-> 0,
                                               data |-> <<>>])
                               ELSE @,
                   !.prev = st.tracker,
                   !.op = [kind |-> "start", dt |-> 0, data |-> <<>>, facts |-> NoFacts],
                   !.obs = [@ EXCEPT !.steps = @ + 1, !.fixes = 0, !.strong = FALSE,
                                     !.quietSince = st.now, !.slow = FALSE,
                                     !.stopped = FALSE, !.opened = calibrate,
                                     !.rebiased = FALSE, !.fresh = FALSE]]

\* the stop button (line 169)
Stop(st) ==
    [st EXCEPT !.tracker = stopRun(st.tracker),
               !.prev = st.tracker,
               !.op = [kind |-> "stop", dt |-> 0, data |-> <<>>, facts |-> NoFacts],
               !.obs = [@ EXCEPT !.steps = @ + 1, !.quietSince = st.now,
                                 !.stopped = TRUE, !.fresh = FALSE]]

\* the reset dialog's yes button (line 174)
Reset(st) ==
    [st EXCEPT !.tracker = confirmReset(st.tracker),
               !.prev = st.tracker,
               !.op = [kind |-> "reset", dt |-> 0, data |-> <<>>, facts |-> NoFacts],
               !.obs = [@ EXCEPT !.steps = @ + 1, !.quietSince = st.now,
                                 !.fresh = FALSE]]

\* line 250, and the bound on suspended calls
CanStart(st) == ~st.tracker.isRunning /\ Len(st.pending) < MaxPending

\* the stop button is shown while a run is on (line 344)
CanStop(st) == st.tracker.isRunning

\* fixes are delivered while the watch is on (lines 259, 359)
CanFix(st) == st.tracker.gpsWatchId

----------------------------------------------------------------------------
(* Scripts: a sequence of inputs applied to the freshly loaded page        *)

TickOf(dt, sample) == [kind |-> "tick", dt |-> dt, data |-> sample]

FixOf(dt, position) == [kind |-> "gps", dt |-> dt, data |-> position]

WaitOf(dt) == [kind |-> "idle", dt |-> dt, data |-> <<>>]

StartOf == [kind |-> "start", dt |-> 0, data |-> <<>>]

StopOf == [kind |-> "stop", dt |-> 0, data |-> <<>>]

ResetOf == [kind |-> "reset", dt |-> 0, data |-> <<>>]

After(st, e) ==
    CASE e.kind = "tick" -> DeviceMotion(st, e.dt, e.data)
      [] e.kind = "gps" -> IF CanFix(st) THEN Position(st, e.dt, e.data) ELSE st
      [] e.kind = "idle" -> Wait(st, e.dt)
      [] e.kind = "start" -> IF CanStart(st) THEN Start(st) ELSE st
      [] e.kind = "stop" -> IF CanStop(st) THEN Stop(st) ELSE st
      [] e.kind = "reset" -> Reset(st)

RECURSIVE ReplayFrom(_, _, _, _)
\* the events i..j of the script, in order: the first half, then the second.
\* The clock does not run backwards: a script stops where it would.
ReplayFrom(st, script, i, j) ==
    IF i > j THEN st
    ELSE IF i = j THEN After(st, script[i])
    ELSE LET half == ReplayFrom(st, script, i, (i + j) \div 2)
         IN  IF half.now < st.now THEN st
             ELSE ReplayFrom(half, script, ((i + j) \div 2) + 1, j)

Replay(st, script) == ReplayFrom(st, script, 1, Len(script))

\* the input e, recorded
Recorded(st, e) == [After(st, e) EXCEPT !.obs.trace = Append(st.obs.trace, e)]

\* the state the script leads to, as an initial state
Scenario(script) == [Replay(Boot, script) EXCEPT !.obs.steps = 0]

Repeat(e, n) == [i \in 1..n |-> e]

----------------------------------------------------------------------------
(* Actions                                                                 *)

Cur == [tracker |-> tracker, now |-> now, pending |-> pending,
        prev |-> prev, op |-> op, obs |-> obs]

Is(st) ==
    /\ tracker = st.tracker
    /\ now = st.now
    /\ pending = st.pending
    /\ prev = st.prev
    /\ op = st.op
    /\ obs = st.obs

Becomes(st) ==
    \E n \in {st} :
        /\ tracker' = n.tracker
        /\ now' = n.now
        /\ pending' = n.pending
        /\ prev' = n.prev
        /\ op' = n.op
        /\ obs' = n.obs

Tick(dt, sample) == Becomes(DeviceMotion(Cur, dt, sample))

GpsFix(dt, position) == CanFix(Cur) /\ Becomes(Position(Cur, dt, position))

Idle(dt) == Becomes(Wait(Cur, dt))

StartRun == CanStart(Cur) /\ Becomes(Start(Cur))

StopRun == CanStop(Cur) /\ Becomes(Stop(Cur))

ConfirmReset == Becomes(Reset(Cur))

----------------------------------------------------------------------------
(* Inputs                                                                  *)

\* accelerometer samples (linear acceleration): at rest, and a 3 m/s^2 push
Still == [x |-> 0, y |-> 0, z |-> 0, isLinear |-> TRUE]

Push == [x |-> 3000, y |-> 0, z |-> 0, isLinear |-> TRUE]

\* a steady reading of 0.2 m/s^2, between 0.3 and 0.5 * motionThreshold
Hum == [x |-> 200, y |-> 0, z |-> 0, isLinear |-> TRUE]

\* a jolt of 12 m/s^2, above 5 * noiseThreshold
Jolt == [x |-> 12000, y |-> 0, z |-> 0, isLinear |-> TRUE]

\* a GPS fix at the given place and speed, 5 m accuracy
Fix(latitude, speed) == [latitude |-> latitude, speed |-> speed, accuracy |-> 5000]

----------------------------------------------------------------------------
(* The page from construction                                              *)

\* operations explored from the initial state
MaxSteps == 5

Init == Is(Boot)

Within(n) == obs.steps < n

Sample == Within(MaxSteps) /\ \E dt \in {100, 600} : \E s \in {Still, Push} : Tick(dt, s)

Locate == Within(MaxSteps) /\ \E v \in {200, 50000, 120000} : GpsFix(1000, Fix(0, v))

Pass == Within(MaxSteps) /\ Idle(calibrationTime)

PressStart == Within(MaxSteps) /\ StartRun

PressStop == Within(MaxSteps) /\ StopRun

PressReset == Within(MaxSteps) /\ ConfirmReset

Next == Sample \/ Locate \/ Pass \/ PressStart \/ PressStop \/ PressReset

Spec == Init /\ [][Next]_vars

----------------------------------------------------------------------------
(* A run at cruising speed.  startRun, three fixes at 20 m/s a second      *)
(* apart (calibration ends and the run begins with the third, which also   *)
(* detects the moving start), then four ticks at most 500 ms apart and a   *)
(* fix one metre further on: 1.9 s into the run, 8 m integrated, 1 m by    *)
(* GPS, the newest fix 0.9 s old.                                          *)

CruiseScript ==
    <<StartOf, FixOf(1000, Fix(0, 20000)), FixOf(1000, Fix(0, 20000)),
      FixOf(1000, Fix(0, 20000)), TickOf(400, Still), TickOf(500, Still),
      FixOf(100, Fix(1000, 20000)), TickOf(400, Still), TickOf(500, Still)>>

\* operations explored from the cruising state
MaxCruiseSteps == 3

Cruise == Scenario(CruiseScript)

InitCruise == Is(Cruise)

CruiseSample ==
    /\ Within(MaxCruiseSteps)
    /\ \E dt \in {100, 500, 600, 2500} : \E s \in {Still, Push} : Tick(dt, s)

CruiseLocate ==
    /\ Within(MaxCruiseSteps)
    /\ \E v \in {0, 200, 20000} : GpsFix(100, Fix(1000, v))

CruiseStart == Within(MaxCruiseSteps) /\ StartRun

CruiseStop == Within(MaxCruiseSteps) /\ StopRun

NextCruise == CruiseSample \/ CruiseLocate \/ CruiseStart \/ CruiseStop

SpecCruise == InitCruise /\ [][NextCruise]_vars

----------------------------------------------------------------------------
(* A second run.  The first run is the moving start of the cruise (three   *)
(* fixes at 20 m/s); it is stopped as soon as it has begun, and a minute   *)
(* passes.                                                                 *)

SecondRunScript ==
    <<StartOf, FixOf(1000, Fix(0, 20000)), FixOf(1000, Fix(0, 20000)),
      FixOf(1000, Fix(0, 20000)), StopOf, WaitOf(60000)>>

\* operations explored after the first run
MaxSecondRunSteps == 3

SecondRun == Scenario(SecondRunScript)

InitSecondRun == Is(SecondRun)

SecondRunSample ==
    /\ Within(MaxSecondRunSteps)
    /\ \E dt \in {100, 600} : \E s \in {Still, Push} : Tick(dt, s)

SecondRunLocate ==
    /\ Within(MaxSecondRunSteps)
    /\ \E v \in {0, 20000} : GpsFix(1000, Fix(0, v))

SecondRunPass == Within(MaxSecondRunSteps) /\ Idle(calibrationTime)

SecondRunStart == Within(MaxSecondRunSteps) /\ StartRun

SecondRunStop == Within(MaxSecondRunSteps) /\ StopRun

NextSecondRun ==
    \/ SecondRunSample
    \/ SecondRunLocate
    \/ SecondRunPass
    \/ SecondRunStart
    \/ SecondRunStop

SpecSecondRun == InitSecondRun /\ [][NextSecondRun]_vars

----------------------------------------------------------------------------
(* A run that has just begun from rest: startRun and the 3 s calibration,  *)
(* no sample and no fix yet.  Slow fixes and still samples follow.         *)

FromRestScript == <<StartOf, WaitOf(calibrationTime)>>

\* operations explored from the beginning of the run
MaxFromRestSteps == 6

FromRest == Scenario(FromRestScript)

InitFromRest == Is(FromRest)

FromRestLocate ==
    /\ Within(MaxFromRestSteps)
    /\ \E v \in {0, 1000} : GpsFix(1000, Fix(0, v))

FromRestSample ==
    /\ Within(MaxFromRestSteps)
    /\ \E dt \in {100, 600} : Tick(dt, Still)

NextFromRest == FromRestLocate \/ FromRestSample

SpecFromRest == InitFromRest /\ [][NextFromRest]_vars

----------------------------------------------------------------------------
(* Coasting.  The moving start of the cruise, then 29 still samples 100 ms *)
(* apart and no further fix: 2.9 s of stationary time, the newest fix      *)
(* 2.9 s old.                                                              *)

CoastScript ==
    <<StartOf, FixOf(1000, Fix(0, 20000)), FixOf(1000, Fix(0, 20000)),
      FixOf(1000, Fix(0, 20000))>> \o Repeat(TickOf(100, Still), 29)

\* operations explored from the coasting state
MaxCoastSteps == 3

Coast == Scenario(CoastScript)

InitCoast == Is(Coast)

CoastSample ==
    /\ Within(MaxCoastSteps)
    /\ \E dt \in {100, 500} : \E s \in {Still, Push} : Tick(dt, s)

CoastLocate ==
    /\ Within(MaxCoastSteps)
    /\ \E v \in {0, 20000} : GpsFix(100, Fix(0, v))

CoastStart == Within(MaxCoastSteps) /\ StartRun

CoastStop == Within(MaxCoastSteps) /\ StopRun

NextCoast == CoastSample \/ CoastLocate \/ CoastStart \/ CoastStop

SpecCoast == InitCoast /\ [][NextCoast]_vars

----------------------------------------------------------------------------
(* A quiet stretch.  The moving start of the cruise at 20 m/s; from then   *)
(* on every sample is still, every fix reports speed 0.                    *)

QuietScript ==
    <<StartOf, FixOf(1000, Fix(0, 20000)), FixOf(1000, Fix(0, 20000)),
      FixOf(1000, Fix(0, 20000))>>

\* operations explored in the quiet stretch
MaxQuietSteps == 8

Quiet == Scenario(QuietScript)

InitQuiet == Is(Quiet)

QuietSample ==
    /\ Within(MaxQuietSteps)
    /\ \E dt \in {250, 500} : Tick(dt, Still)

QuietLocate == Within(MaxQuietSteps) /\ GpsFix(250, Fix(0, 0))

NextQuiet == QuietSample \/ QuietLocate

SpecQuiet == InitQuiet /\ [][NextQuiet]_vars

----------------------------------------------------------------------------
(* Falling back.  The cruise at 20 m/s has reached the 40 km/h, 60 km/h    *)
(* and 30 mph checkpoints; then a fix at 0.2 m/s, a gap tick that anchors  *)
(* to it and three still ticks: the speed is back at 0 and the last five   *)
(* velocities are all below 1 m/s.                                         *)

RecrossScript ==
    CruiseScript \o
        <<FixOf(100, Fix(1000, 200)), TickOf(600, Still), TickOf(100, Still),
          TickOf(100, Still), TickOf(100, Still)>>

\* operations explored once the speed has fallen back
MaxRecrossSteps == 4

Recross == Scenario(RecrossScript)

InitRecross == Is(Recross)

RecrossSample ==
    /\ Within(MaxRecrossSteps)
    /\ \E dt \in {100, 600} : \E s \in {Still, Push} : Tick(dt, s)

RecrossLocate ==
    /\ Within(MaxRecrossSteps)
    /\ \E v \in {200, 20000} : GpsFix(100, Fix(1000, v))

RecrossStart == Within(MaxRecrossSteps) /\ StartRun

RecrossStop == Within(MaxRecrossSteps) /\ StopRun

NextRecross == RecrossSample \/ RecrossLocate \/ RecrossStart \/ RecrossStop

SpecRecross == InitRecross /\ [][NextRecross]_vars

----------------------------------------------------------------------------
(* Pushing off.  A run from rest (startRun, 3 s of calibration without a   *)
(* sample), then 33 samples of a 3 m/s^2 push 20 ms apart: the speed is    *)
(* just below 2 m/s and no launch has been declared.                       *)

LaunchScript ==
    <<StartOf, WaitOf(calibrationTime)>> \o Repeat(TickOf(20, Push), 33)

\* operations explored from the push
MaxLaunchSteps == 5

Launch == Scenario(LaunchScript)

InitLaunch == Is(Launch)

LaunchSample ==
    /\ Within(MaxLaunchSteps)
    /\ \E dt \in {20, 100} : \E s \in {Still, Push} : Tick(dt, s)

LaunchStart == Within(MaxLaunchSteps) /\ StartRun

LaunchStop == Within(MaxLaunchSteps) /\ StopRun

NextLaunch == LaunchSample \/ LaunchStart \/ LaunchStop

SpecLaunch == InitLaunch /\ [][NextLaunch]_vars

----------------------------------------------------------------------------
(* A recorded run on a used engine.  The engine has completed the first    *)
(* run of the second-run scenario; the inputs of its next run are          *)
(* recorded, from startRun on.                                             *)

\* inputs recorded
MaxRerunSteps == 4

InitRerun == Is(SecondRun)

RerunStart ==
    /\ Within(MaxRerunSteps)
    /\ obs.trace = <<>>
    /\ CanStart(Cur)
    /\ Becomes(Recorded(Cur, StartOf))

RerunSample ==
    /\ Within(MaxRerunSteps)
    /\ obs.trace # <<>>
    /\ \E dt \in {100, 600} : \E s \in {Still, Push} :
           Becomes(Recorded(Cur, TickOf(dt, s)))

RerunLocate ==
    /\ Within(MaxRerunSteps)
    /\ obs.trace # <<>>
    /\ CanFix(Cur)
    /\ \E v \in {0, 20000} : Becomes(Recorded(Cur, FixOf(1000, Fix(0, v))))

RerunPass ==
    /\ Within(MaxRerunSteps)
    /\ obs.trace # <<>>
    /\ Becomes(Recorded(Cur, WaitOf(calibrationTime)))

NextRerun == RerunStart \/ RerunSample \/ RerunLocate \/ RerunPass

SpecRerun == InitRerun /\ [][NextRerun]_vars

----------------------------------------------------------------------------
(* Two overlapping startRun calls.  startRun returns early only while a    *)
(* run is on (line 250), so a second call made during the calibration of   *)
(* the first (the start button of line 168 and the auto-start of line 186, *)
(* say) is suspended in a calibration of its own.  Here the second call    *)
(* came one second after the first.                                        *)

\* operations explored from there
MaxOverlapSteps == 4

Overlap == [Start(Wait(Start(Boot), 1000)) EXCEPT !.obs.steps = 0]

InitOverlap == Is(Overlap)

OverlapSample ==
    Within(MaxOverlapSteps) /\ \E dt \in {100, 600} : \E s \in {Still, Push} : Tick(dt, s)

OverlapLocate == Within(MaxOverlapSteps) /\ \E v \in {0, 20000} : GpsFix(1000, Fix(0, v))

OverlapPass == Within(MaxOverlapSteps) /\ \E dt \in {1000, 2000} : Idle(dt)

OverlapStop == Within(MaxOverlapSteps) /\ StopRun

OverlapStart == Within(MaxOverlapSteps) /\ StartRun

NextOverlap == OverlapSample \/ OverlapLocate \/ OverlapPass \/ OverlapStop \/ OverlapStart

SpecOverlap == InitOverlap /\ [][NextOverlap]_vars

----------------------------------------------------------------------------
(* A moving start declared during calibration.  startRun on the freshly    *)
(* loaded page, then three fixes at 20 m/s half a second apart: the third  *)
(* declares the moving start 1.5 s into the 3 s calibration.               *)

DeclaredScript ==
    <<StartOf, FixOf(500, Fix(0, 20000)), FixOf(500, Fix(0, 20000)),
      FixOf(500, Fix(0, 20000))>>

\* operations explored from there
MaxDeclaredSteps == 3

Declared == Scenario(DeclaredScript)

InitDeclared == Is(Declared)

DeclaredSample ==
    Within(MaxDeclaredSteps) /\ \E dt \in {100, 600} : \E s \in {Still, Push} : Tick(dt, s)

DeclaredLocate ==
    Within(MaxDeclaredSteps) /\ \E v \in {0, 20000} : GpsFix(1000, Fix(0, v))

DeclaredPass == Within(MaxDeclaredSteps) /\ Idle(2000)

DeclaredStop == Within(MaxDeclaredSteps) /\ StopRun

NextDeclared == DeclaredSample \/ DeclaredLocate \/ DeclaredPass \/ DeclaredStop

SpecDeclared == InitDeclared /\ [][NextDeclared]_vars

----------------------------------------------------------------------------
(* Fixes without a speed, at cruising speed.  From the cruising state the  *)
(* watch delivers fixes 20 m further north or on the spot, with a speed of *)
(* 20 m/s, of 0, or with none (null, modelled as -1).                      *)

\* operations explored from the cruising state
MaxPositionOnlySteps == 3

InitPositionOnly == Is(Cruise)

PositionOnlySample ==
    Within(MaxPositionOnlySteps) /\ \E dt \in {100, 600} : \E s \in {Still, Push} : Tick(dt, s)

PositionOnlyLocate ==
    /\ Within(MaxPositionOnlySteps)
    /\ \E lat \in {1000, 21000} : \E v \in {-1, 0, 20000} : GpsFix(1000, Fix(lat, v))

NextPositionOnly == PositionOnlySample \/ PositionOnlyLocate

SpecPositionOnly == InitPositionOnly /\ [][NextPositionOnly]_vars

----------------------------------------------------------------------------
(* The calibration window.  startRun on the freshly loaded page; the first *)
(* devicemotion sample comes 0.1 s or 2.51 s into the 3 s calibration, so  *)
(* that the interval of 50 ms collects 58 readings or exactly 10.          *)

\* operations explored from the call of startRun
MaxCalibrationSteps == 4

Calibration == Scenario(<<StartOf>>)

InitCalibration == Is(Calibration)

CalibrationSample ==
    /\ Within(MaxCalibrationSteps)
    /\ \E dt \in {100, 2510} : \E s \in {Still, Push} : Tick(dt, s)

CalibrationPass == Within(MaxCalibrationSteps) /\ Idle(calibrationTime)

CalibrationStart == Within(MaxCalibrationSteps) /\ StartRun

CalibrationStop == Within(MaxCalibrationSteps) /\ StopRun

NextCalibration ==
    CalibrationSample \/ CalibrationPass \/ CalibrationStart \/ CalibrationStop

SpecCalibration == InitCalibration /\ [][NextCalibration]_vars

----------------------------------------------------------------------------
(* The reliability window.  startRun on the freshly loaded page, then      *)
(* fixes 1 s, 2.5 s or 4 s apart, at rest or at 20 m/s, accurate to 5 m or *)
(* to 60 m.                                                                *)

\* operations explored from the call of startRun
MaxReliabilitySteps == 3

InitReliability == Is(Calibration)

ReliabilitySample == Within(MaxReliabilitySteps) /\ Tick(100, Still)

ReliabilityLocate ==
    /\ Within(MaxReliabilitySteps)
    /\ \E dt \in {1000, 2500, 4000} : \E v \in {0, 20000} : \E a \in {5000, 60000} :
           GpsFix(dt, [latitude |-> 0, speed |-> v, accuracy |-> a])

NextReliability == ReliabilitySample \/ ReliabilityLocate

SpecReliability == InitReliability /\ [][NextReliability]_vars

----------------------------------------------------------------------------
(* Jolts.  A run that has just begun from rest; samples 100 ms apart: at   *)
(* rest, a 3 m/s^2 push, or a 12 m/s^2 jolt.                               *)

\* operations explored from the beginning of the run
MaxSpikeSteps == 6

InitSpike == Is(FromRest)

SpikeSample == Within(MaxSpikeSteps) /\ \E s \in {Still, Push, Jolt} : Tick(100, s)

NextSpike == SpikeSample

SpecSpike == InitSpike /\ [][NextSpike]_vars

----------------------------------------------------------------------------
(* The motion gate around a moving start.  From the moving start declared  *)
(* during calibration: samples 100 ms apart (at rest, a push, a jolt), the *)
(* end of the calibration, stopRun and startRun.                           *)

\* operations explored from the declaration
MaxGateSteps == 5

InitGate == Is(Declared)

GateSample == Within(MaxGateSteps) /\ \E s \in {Still, Push, Jolt} : Tick(100, s)

GatePass == Within(MaxGateSteps) /\ Idle(2000)

GateStop == Within(MaxGateSteps) /\ StopRun

GateStart == Within(MaxGateSteps) /\ StartRun

NextGate == GateSample \/ GatePass \/ GateStop \/ GateStart

SpecGate == InitGate /\ [][NextGate]_vars

----------------------------------------------------------------------------
(* Settling.  A phone whose sensor reads a steady 0.2 m/s^2, in a car at   *)
(* 20 m/s: startRun, 50 samples 20 ms apart, three fixes half a second     *)
(* apart, the third of which declares the moving start.                    *)

SettleScript ==
    <<StartOf>> \o Repeat(TickOf(20, Hum), 50)
        \o Repeat(FixOf(500, Fix(0, 20000)), 3)

\* operations explored from the declaration
MaxSettleSteps == 5

Settle == Scenario(SettleScript)

InitSettle == Is(Settle)

SettleSample == Within(MaxSettleSteps) /\ \E s \in {Still, Hum, Push} : Tick(100, s)

SettlePass == Within(MaxSettleSteps) /\ Idle(1000)

NextSettle == SettleSample \/ SettlePass

SpecSettle == InitSettle /\ [][NextSettle]_vars

----------------------------------------------------------------------------
(* Pulling away.  A run begun from rest, a first fix of 5 m/s one second   *)
(* later and a first sample; then samples 100 ms apart and further fixes.  *)

SmoothingScript ==
    <<StartOf, WaitOf(calibrationTime), FixOf(1000, Fix(0, 5000)), TickOf(100, Push)>>

\* operations explored from there
MaxSmoothingSteps == 4

Smoothing == Scenario(SmoothingScript)

InitSmoothing == Is(Smoothing)

SmoothingSample == Within(MaxSmoothingSteps) /\ \E s \in {Still, Push} : Tick(100, s)

SmoothingLocate ==
    Within(MaxSmoothingSteps) /\ \E v \in {0, 5000} : GpsFix(100, Fix(0, v))

NextSmoothing == SmoothingSample \/ SmoothingLocate

SpecSmoothing == InitSmoothing /\ [][NextSmoothing]_vars

----------------------------------------------------------------------------
(* A GPS outage while cruising.  A phone whose sensor reads a steady       *)
(* 0.2 m/s^2, in a car at 20 m/s: startRun, three fixes half a second      *)
(* apart (moving start; the run begins 1.5 s after the third with the gate *)
(* Moving) and no fix from then on; the first sample of the run comes 2.1 s*)
(* after the last fix and anchors the speed to the last GPS speed.  From   *)
(* there samples come at 100, 67 or 50 Hz.                                 *)

OutageScript ==
    <<StartOf>> \o Repeat(FixOf(500, Fix(0, 20000)), 3)
        \o <<WaitOf(2000), TickOf(100, Hum)>>

\* operations explored from the onset of the outage
MaxOutageSteps == 4

Outage == Scenario(OutageScript)

InitOutage == Is(Outage)

OutageSample ==
    /\ Within(MaxOutageSteps)
    /\ \E dt \in {10, 15, 20} : \E s \in {Hum, Still} : Tick(dt, s)

\* GPS comes back
OutageLocate == Within(MaxOutageSteps) /\ GpsFix(10, Fix(0, 20000))

NextOutage == OutageSample \/ OutageLocate

SpecOutage == InitOutage /\ [][NextOutage]_vars

----------------------------------------------------------------------------
(* Full buffers.  A moving start at 20 m/s (three fixes half a second      *)
(* apart, the run begins 1.5 s after the third), eight more fixes 100 ms   *)
(* apart and 21 samples of a 3 m/s^2 push 100 ms apart: the reliability    *)
(* window has seen 11 fixes, the magnitude buffer 21 samples, and the      *)
(* launch buffer spans 1.9 s.                                              *)

FullScript ==
    <<StartOf>> \o Repeat(FixOf(500, Fix(0, 20000)), 3) \o <<WaitOf(1500)>>
        \o Repeat(FixOf(100, Fix(0, 20000)), 8)
        \o Repeat(TickOf(100, Push), 21)

\* operations explored with the buffers full
MaxFullSteps == 3

Full == Scenario(FullScript)

InitFull == Is(Full)

FullSample ==
    /\ Within(MaxFullSteps)
    /\ \E dt \in {100, 600, 2500} : \E s \in {Still, Push, Jolt} : Tick(dt, s)

FullLocate == Within(MaxFullSteps) /\ \E v \in {0, 20000} : GpsFix(100, Fix(0, v))

FullStop == Within(MaxFullSteps) /\ StopRun

FullStart == Within(MaxFullSteps) /\ StartRun

NextFull == FullSample \/ FullLocate \/ FullStop \/ FullStart

SpecFull == InitFull /\ [][NextFull]_vars

----------------------------------------------------------------------------
(* Towards the eighth of a mile.  A car at 45 m/s (just above 100 mph):    *)
(* startRun, three fixes half a second apart (moving start), the run       *)
(* begins 1.5 s after the third; then a fix every second, 45 m further on  *)
(* each time, and nine samples 100 ms apart after each fix.  After three   *)
(* such seconds, a fourth fix and three samples the distance is 189 m (it  *)
(* was set to the GPS distance 2.2 s into the run).                        *)

\* the k-th second of the run: a fix and nine samples
MilestoneSecond(k) ==
    <<FixOf(100, Fix(k * 45000, 45000))>> \o Repeat(TickOf(100, Still), 9)

MilestoneScript ==
    <<StartOf>> \o Repeat(FixOf(500, Fix(0, 45000)), 3) \o <<WaitOf(1500)>>
        \o MilestoneSecond(1) \o MilestoneSecond(2) \o MilestoneSecond(3)
        \o <<FixOf(100, Fix(180000, 45000))>> \o Repeat(TickOf(100, Still), 3)

\* operations explored from there
MaxMilestoneSteps == 4

Milestone == Scenario(MilestoneScript)

InitMilestone == Is(Milestone)

MilestoneSample ==
    Within(MaxMilestoneSteps) /\ \E s \in {Still, Push} : Tick(100, s)

MilestoneLocate ==
    /\ Within(MaxMilestoneSteps)
    /\ \E v \in {45000, 70000} : GpsFix(100, Fix(225000, v))

MilestoneStop == Within(MaxMilestoneSteps) /\ StopRun

MilestoneStart == Within(MaxMilestoneSteps) /\ StartRun

NextMilestone ==
    MilestoneSample \/ MilestoneLocate \/ MilestoneStop \/ MilestoneStart

SpecMilestone == InitMilestone /\ [][NextMilestone]_vars

----------------------------------------------------------------------------
(* Claims                                                                  *)

\* C1: at the end of every tick of a run and after every GPS fix of a run
\* the speed is between 0 and 100 m/s
C1_SpeedInRange ==
    (tracker.isRunning /\ op.kind \in {"tick", "gps"})
        => (tracker.velocity >= 0 /\ tracker.velocity <= maxRealisticSpeed)

\* C4: a tick on which a soft zero anchor's condition holds where the code
\* tests it ends with the fused speed and the accelerometer speed at 0
C4_SoftZeroAnchors ==
    (op.kind = "tick" /\ (op.facts.gpsZero \/ op.facts.stillZero))
        => /\ tracker.velocity = 0
           /\ tracker.fusedSpeed = 0
           /\ tracker.accelIntegratedSpeed = 0

\* a tick of the run that was already on when the tick came
RunTick ==
    /\ op.kind = "tick"
    /\ prev.isRunning
    /\ op.facts.path \in {"gap", "hardzero", "full"}

Events(t) ==
    [launch |-> t.launchDetected, speeds |-> t.speedAchieved,
     distances |-> t.runDistanceAchievements,
     speedHistory |-> t.speedHistory, distanceHistory |-> t.distanceHistory]

\* C9: a tick more than 0.5 s after the previous one leaves the distance
\* alone, integrates nothing, emits no event, empties the smoothing buffer,
\* sets sigma to 5 and records its time
C9_GapTickDiscarded ==
    (op.kind = "tick" /\ op.facts.path = "gap")
        => /\ tracker.distance = prev.distance
           /\ tracker.accelIntegratedSpeed \in {0, prev.gpsSpeed}
           /\ tracker.stationaryDuration = prev.stationaryDuration
           /\ Events(tracker) = Events(prev)
           /\ tracker.velocityBuffer = <<>>
           /\ tracker.speedEstimateUncertainty = 5000
           /\ tracker.lastTimestamp = now - tracker.runStartTime

\* a gap tick of a run that had distance and a filled smoothing buffer
C9_GapWhileCruising ==
    /\ obs.steps > 0
    /\ op.kind = "tick"
    /\ op.facts.path = "gap"
    /\ prev.distance > 0
    /\ prev.velocityBuffer # <<>>
    /\ prev.speedEstimateUncertainty # 5000

\* GPS is reliable: the engine has GPS, the newest fix is less than 2 s
\* old and the reliability score is above 0.3
ReliableAt(t, clock) ==
    t.gpsAvailable /\ clock - t.gpsLastUpdate < 2000 /\ t.gpsReliabilityScore > 300

\* C10: a gap tick re-anchors the fused and the accelerometer speed to the
\* GPS speed if GPS is reliable, and sets both to 0 otherwise
C10_GapAnchorsToReliableGps ==
    (op.kind = "tick" /\ op.facts.path = "gap")
        => LET anchor == IF ReliableAt(prev, now) THEN prev.gpsSpeed ELSE 0
           IN  /\ tracker.fusedSpeed = anchor
               /\ tracker.accelIntegratedSpeed = anchor

\* C2: in a run that started from rest, with no fix delivered and no
\* sample filtered to more than 1 m/s^2 since startRun was called, every
\* tick leaves the speed and the integrated distance at 0
C2_StaticPhoneStaysAtZero ==
    (/\ op.kind = "tick"
     /\ tracker.isRunning
     /\ ~tracker.wasMovingAtStart
     /\ obs.fixes = 0
     /\ ~obs.strong)
        => (tracker.velocity = 0 /\ tracker.distance = 0)

\* C3: a tick on which the stationary time is above 3 s, with GPS
\* unreliable or slower than 0.5 m/s, ends with the speed and the
\* accelerometer speed at 0 and sigma at 0.5, integrates no distance and
\* emits no event
C3_HardZero ==
    (op.kind = "tick" /\ op.facts.path = "hardzero")
        => /\ tracker.velocity = 0
           /\ tracker.fusedSpeed = 0
           /\ tracker.accelIntegratedSpeed = 0
           /\ tracker.speedEstimateUncertainty = 500
           /\ tracker.distance = prev.distance
           /\ Events(tracker) = Events(prev)

\* a hard zero that stopped a speed and changed sigma
C3_HardZeroWhileCoasting ==
    /\ obs.steps > 0
    /\ op.kind = "tick"
    /\ op.facts.path = "hardzero"
    /\ prev.velocity > 0
    /\ prev.accelIntegratedSpeed > 0
    /\ prev.speedEstimateUncertainty # 500

\* C6: sigma is at least 0.1 m/s in every state
C6_SigmaFloor == tracker.speedEstimateUncertainty >= 100

\* C7: once every sample has been still and every fix has reported speed
\* 0 for 4 s, with ticks at most 0.5 s apart, the speed is 0 at every tick
C7_ZeroByFourthSecond ==
    (op.kind = "tick" /\ tracker.isRunning /\ now - obs.quietSince >= 4000)
        => tracker.velocity = 0

\* C8: a fix with a speed, accuracy 5 m and reliability 1.0 that finds the
\* fused speed away from the GPS speed leaves it strictly closer
C8_FixPullsTowardGps ==
    (/\ op.kind = "gps"
     /\ op.data.speed >= 0
     /\ op.data.accuracy = 5000
     /\ tracker.gpsReliabilityScore = 1000
     /\ prev.fusedSpeed # op.data.speed)
        => Abs(tracker.fusedSpeed - op.data.speed) < Abs(prev.fusedSpeed - op.data.speed)

\* C11: in a run in which no fix has been delivered since startRun was
\* called, every tick finds GPS unreliable, and a gap tick leaves the fused
\* and the accelerometer speed at 0: no GPS speed is written into them
C11_NoGpsWithoutFix ==
    (op.kind = "tick" /\ prev.isRunning /\ obs.fixes = 0)
        => /\ op.facts.path \in {"hardzero", "full"} => ~ReliableAt(prev, now)
           /\ op.facts.path = "gap"
                  => (tracker.fusedSpeed = 0 /\ tracker.accelIntegratedSpeed = 0)

\* a step within one run: no run begins in it
SameRun == op'.kind # "start" /\ tracker'.runStartTime = tracker.runStartTime

RecentSamples(t, span) ==
    SelectSeq(t.launchAccelerationBuffer,
              LAMBDA d : d.timestamp > t.lastTimestamp - span)

\* the three conditions of a launch, on the tracker at the end of a tick
LaunchConditions(t) ==
    /\ Len(t.launchAccelerationBuffer) >= 10
    /\ \A i \in (Len(t.launchAccelerationBuffer) - 9)..Len(t.launchAccelerationBuffer) :
           /\ t.launchAccelerationBuffer[i].acceleration > 1500
           /\ t.launchAccelerationBuffer[i].isMoving
    /\ t.fusedSpeed > 2000
    /\ Len(RecentSamples(t, 500)) >= 25
    /\ Len(SelectSeq(RecentSamples(t, 500),
                     LAMBDA d : d.acceleration > 1000 /\ d.isMoving)) * 10
           >= Len(RecentSamples(t, 500)) * 8

C14_GatedByFromSpeed ==
    (/\ op.kind = "tick"
     /\ "60-100mph" \in tracker.speedAchieved
     /\ "60-100mph" \notin prev.speedAchieved)
        => obs.slow

\* what the engine exposes: speed, distance, the moving, launched and
\* calibrated flags, GPS reliability and its score, sigma
Snapshot(t, clock) ==
    [speed |-> t.velocity,
     distance |-> t.distance,
     moving |-> t.isMoving,
     launched |-> t.launchDetected,
     calibrated |-> t.isCalibrated,
     gpsReliable |-> ReliableAt(t, clock),
     gpsReliabilityScore |-> t.gpsReliabilityScore,
     sigma |-> t.speedEstimateUncertainty]

\* C15: confirmReset leaves the snapshot of a freshly constructed engine
C15_ResetRestoresSnapshot ==
    op.kind = "reset" => Snapshot(tracker, now) = Snapshot(NewTracker(TRUE), now)

\* the central estimate: fused and accelerometer speed, sigma, the two
\* distances, the moving flag and the stationary time
FusedState(t) ==
    [fusedSpeed |-> t.fusedSpeed,
     accelIntegratedSpeed |-> t.accelIntegratedSpeed,
     speedEstimateUncertainty |-> t.speedEstimateUncertainty,
     distance |-> t.distance,
     gpsDistance |-> t.gpsDistance,
     isMoving |-> t.isMoving,
     stationaryDuration |-> t.stationaryDuration]

\* C16: at every tick of a recorded run on an engine that has completed a
\* run, the central estimate is the one a freshly loaded engine has after
\* the same inputs
C16_SameTraceSameStates ==
    (op.kind = "tick" /\ obs.trace # <<>>)
        => FusedState(tracker) = FusedState(Replay(Boot, obs.trace).tracker)

\* what stopRun leaves behind, as far as a sample could change it
Outcome(t) ==
    [velocity |-> t.velocity, fusedSpeed |-> t.fusedSpeed,
     accelIntegratedSpeed |-> t.accelIntegratedSpeed, distance |-> t.distance,
     speedAchieved |-> t.speedAchieved, speedHistory |-> t.speedHistory,
     runDistanceAchievements |-> t.runDistanceAchievements,
     distanceHistory |-> t.distanceHistory,
     launchDetected |-> t.launchDetected, launchTime |-> t.launchTime]

\* C17: from the return of stopRun until startRun is next called the engine
\* is not running and no GPS watch is on, and a devicemotion sample changes
\* neither the speeds, nor the distance, nor a checkpoint, milestone or
\* launch record
C17_StoppedUntilStart ==
    [][obs'.stopped =>
          /\ ~tracker'.isRunning
          /\ ~tracker'.gpsWatchId
          /\ (obs.stopped /\ op'.kind = "tick") => Outcome(tracker') = Outcome(tracker)]_vars

\* C18: while a startRun call is between subscribing the GPS watch and
\* marking the engine running, no devicemotion sample, GPS fix, stopRun or
\* other startRun is processed
C18_StartRunNotInterleaved ==
    pending # <<>> =>
        /\ op.kind \notin {"tick", "gps", "stop"}
        /\ op.kind = "start" => Len(pending) = 1

\* C19: a run for which a moving start is declared has no initial
\* calibration: the call of startRun that began it opened no calibration
\* window, and no calibration has replaced the bias since that call
C19_MovingStartSkipsCalibration ==
    tracker.wasMovingAtStart => ~obs.opened /\ ~obs.rebiased

\* the tick about to be processed is the first of a run since a moving
\* start was declared; prev' is the tracker as the tick finds it
FirstMovingTick ==
    /\ op'.kind = "tick"
    /\ obs.fresh
    /\ prev'.isRunning
    /\ prev'.wasMovingAtStart

\* C20: the first tick of a run since a moving start was declared finds the
\* fused and the integrated speed still positive, the engine calibrated, and
\* the uncertainty at no more than the 0.1 * accuracy of the declaration
\* (GPS updates lower it, only ticks of a run raise it)
C20_MovingStartRetained ==
    [][FirstMovingTick =>
          /\ prev'.fusedSpeed > 0
          /\ prev'.accelIntegratedSpeed > 0
          /\ prev'.isCalibrated
          /\ prev'.speedEstimateUncertainty <= Mul(prev'.gpsAccuracy, 100)]_vars

\* a run has just begun: startRun has run to its end, at once or when its
\* calibration ended, and nothing has been processed since
RunJustBegun ==
    /\ tracker.isRunning
    /\ \/ op.kind = "start"
       \/ op.kind = "idle" /\ tracker.runStartTime # prev.runStartTime

\* C21: when startRun completes with a stationary start, the central
\* estimate has its initial value whatever earlier runs left: both speeds 0,
\* uncertainty 10, both distances 0, not moving, stationary duration 0, no
\* launch
C21_StationaryStartIsInitial ==
    (RunJustBegun /\ ~tracker.wasMovingAtStart) =>
        /\ FusedState(tracker) =
               [fusedSpeed |-> 0, accelIntegratedSpeed |-> 0,
                speedEstimateUncertainty |-> 10000, distance |-> 0,
                gpsDistance |-> 0, isMoving |-> FALSE, stationaryDuration |-> 0]
        /\ ~tracker.launchDetected

\* what a fix without a speed must leave alone
SpeedState(t) ==
    [gpsSpeed |-> t.gpsSpeed, gpsSpeedHistory |-> t.gpsSpeedHistory,
     gpsReliabilityScore |-> t.gpsReliabilityScore,
     consecutiveZeroGPS |-> t.consecutiveZeroGPS,
     velocity |-> t.velocity, fusedSpeed |-> t.fusedSpeed,
     accelIntegratedSpeed |-> t.accelIntegratedSpeed,
     speedEstimateUncertainty |-> t.speedEstimateUncertainty,
     lastFusionTime |-> t.lastFusionTime]

\* the metres from the previous fix of the run to a fix at `latitude`, when
\* they count (line 613); 0 otherwise
Travelled(t, latitude) ==
    IF /\ t.isRunning
       /\ t.lastGpsPosition # <<>>
       /\ Abs(latitude - t.lastGpsPosition[1].latitude) < 100000
    THEN Abs(latitude - t.lastGpsPosition[1].latitude)
    ELSE 0

\* C22: a fix whose speed is null or negative leaves the GPS speed, the
\* reliability window and score, the zero counter, the speeds and the
\* uncertainty as they were, and its position still adds to the GPS distance
C22_PositionOnlyFix ==
    (op.kind = "gps" /\ op.data.speed < 0) =>
        /\ SpeedState(tracker) = SpeedState(prev)
        /\ tracker.gpsDistance = prev.gpsDistance + Travelled(prev, op.data.latitude)
        /\ tracker.lastGpsPosition[1].latitude = op.data.latitude

\* a fix without a speed, 20 m from the previous one, at cruising speed
C22_PositionOnlyAdvance ==
    /\ op.kind = "gps"
    /\ op.data.speed < 0
    /\ prev.fusedSpeed > 0
    /\ prev.gpsSpeedHistory # <<>>
    /\ tracker.gpsDistance = prev.gpsDistance + 20000

\* the oldest calibration ends in this step
CalibrationEnds == pending # <<>> /\ Len(pending') < Len(pending)

\* the readings it has collected by its last callback
Collected ==
    CollectCalibration(tracker, pending[1], pending[1].start + calibrationTime)

\* the tracker as the timers leave it in this step, before any handler
AfterTimers == IF op'.kind = "idle" THEN tracker' ELSE prev'

\* the middle one of the values, in ascending order
MiddleOf(values) == SortAsc(values)[(Len(values) \div 2) + 1]

\* C23: a calibration that ends with at least 10 readings (exactly 10
\* included) sets the bias to the per-axis median of the readings and marks
\* the engine calibrated
C23_TenReadingsCalibrate ==
    [][(CalibrationEnds /\ Len(Collected) >= 10) =>
          /\ AfterTimers.isCalibrated
          /\ AfterTimers.calibrationOffset =
                 [x |-> MiddleOf([i \in 1..Len(Collected) |-> Collected[i].x]),
                  y |-> MiddleOf([i \in 1..Len(Collected) |-> Collected[i].y]),
                  z |-> MiddleOf([i \in 1..Len(Collected) |-> Collected[i].z])]]_vars

\* C24: a calibration that ends with fewer than 10 readings (none included)
\* leaves the bias as it was and still marks the engine calibrated, so that
\* the next startRun does not calibrate again
C24_FewReadingsStillCalibrated ==
    [][(CalibrationEnds /\ Len(Collected) < 10) =>
          /\ AfterTimers.calibrationOffset = tracker.calibrationOffset
          /\ AfterTimers.isCalibrated]_vars

\* a fix with a valid speed has just been processed
SpeedFix == op.kind = "gps" /\ op.data.speed >= 0

\* C25: after a fix with a valid speed the reliability score lies in
\* [0.1, 1.0], and it is exactly 0.3 while the window holds fewer than two
\* fixes, which is not enough for the GPS to count as reliable
C25_ScoreInRange ==
    SpeedFix =>
        /\ tracker.gpsReliabilityScore >= 100
        /\ tracker.gpsReliabilityScore <= 1000
        /\ Len(tracker.gpsSpeedHistory) < 2 =>
               /\ tracker.gpsReliabilityScore = 300
               /\ ~GpsReliable(tracker, now)

\* the first fix of a window, accurate to 5 m
C25_SingleFix ==
    /\ SpeedFix
    /\ Len(tracker.gpsSpeedHistory) = 1
    /\ op.data.accuracy = 5000
    /\ prev.gpsReliabilityScore # 300
    /\ tracker.gpsReliabilityScore = 300

\* the time from the previous fix to the one just processed
SinceLastFix == now - prev.gpsLastUpdate

\* C26: a fix that comes more than 3 s after the previous one has its score
\* multiplied by 0.5, one that comes more than 2 s after it by 0.7: the
\* score is then at most 0.5, or 0.7
C26_StaleFixScoresLess ==
    (SpeedFix /\ Len(tracker.gpsSpeedHistory) >= 2) =>
        /\ SinceLastFix > 3000 => tracker.gpsReliabilityScore <= 500
        /\ SinceLastFix > 2000 => tracker.gpsReliabilityScore <= 700

\* the sample just processed was above the noise limit of line 503
Rejected ==
    /\ op.kind = "tick"
    /\ Magnitude(Calibrate(prev, op.data)) > noiseThreshold * 5

\* C27: a sample of magnitude above 5 * noiseThreshold is rejected: the
\* value passed on is the last accepted one, and the sample is not added to
\* the buffer of magnitudes that later samples are averaged over
C27_SpikeLeavesNoTrace ==
    Rejected =>
        /\ tracker.sensorData[1].filteredMagnitude = prev.lastValidAcceleration
        /\ tracker.lastValidAcceleration = prev.lastValidAcceleration
        /\ tracker.accelerationBuffer = prev.accelerationBuffer

\* the gate was Stationary and the sample just processed, which was not
\* rejected and whose filtered magnitude is above 2 * motionThreshold, has
\* made it Moving
MovedBySample ==
    /\ op.kind = "tick"
    /\ ~Rejected
    /\ ~prev.isMoving
    /\ tracker.isMoving
    /\ tracker.sensorData[1].filteredMagnitude > motionThreshold * 2

\* a run begins in this step with the moving-start flag set (line 330)
MovingAtRunStart ==
    /\ tracker'.runStartTime # tracker.runStartTime
    /\ IF op'.kind \in {"tick", "gps"} THEN prev'.wasMovingAtStart
       ELSE tracker'.wasMovingAtStart

\* C28 as stated: the gate goes from Stationary to Moving only while a
\* sample with a filtered magnitude above 1.0 is processed
C28_MovingOnlyBySample ==
    [][(~tracker.isMoving /\ tracker'.isMoving) => MovedBySample']_vars

\* C28: the gate goes from Stationary to Moving only while a sample with a
\* filtered magnitude above 1.0 is processed, or when a run begins after a
\* moving start was declared; no sample with a filtered magnitude of at most
\* 1.0 and no rejected sample makes it Moving
C28_MovingBySampleOrMovingStart ==
    [][(~tracker.isMoving /\ tracker'.isMoving) =>
          MovedBySample' \/ MovingAtRunStart]_vars

\* a push has made the gate Moving
C28_PushMoves == MovedBySample /\ op.data.x = Push.x

\* C29: a sample turns the gate from Moving to Stationary only when the
\* filtered magnitude has been below 0.3 * motionThreshold for 50 samples
\* in a row, the last of them included; samples between 0.3 and 0.5 *
\* motionThreshold do not count toward the 50
C29_StationaryAfterFiftyCalm ==
    (op.kind = "tick" /\ prev.isMoving /\ ~tracker.isMoving) => obs.calm >= 50

\* the tracker the tick just processed would have left, had the smoothing
\* buffer been empty before it (fewer than 3 entries: no median is taken)
Unsmoothed == processSensorData([prev EXCEPT !.velocityBuffer = <<>>], op.data, now)

\* C30: the median taken for display is not written back into the
\* estimator: after a tick and the fix that follows it, the integrated speed
\* is what it would be had the tick taken no median
C30_SmoothingIsReadOnly ==
    [][(op.kind = "tick" /\ op'.kind = "gps" /\ pending = <<>>) =>
          tracker'.accelIntegratedSpeed =
              handleGPSUpdate(Unsmoothed, op'.data, now').accelIntegratedSpeed]_vars

\* every sample of the run so far has read 0.2 m/s^2 (the buffer is emptied
\* at run start and holds the last 20)
SteadyHum ==
    \A i \in 1..Len(tracker.accelerationBuffer) :
        tracker.accelerationBuffer[i].magnitude = Magnitude(Hum)

\* C31: on a tick of the outage (no fix since its onset, GPS not reliable,
\* gate Moving, every sample filtered to 0.2) the speed is no less than the
\* speed at the onset less 2% of it for every second begun since
C31_OutageDecay ==
    (/\ op.kind = "tick"
     /\ op.facts.path = "full"
     /\ obs.fixes = Outage.obs.fixes
     /\ ~GpsReliable(prev, op.data.timestamp)
     /\ tracker.isMoving
     /\ SteadyHum)
        => LET seconds == ((now - Outage.now) + 999) \div 1000
           IN  tracker.velocity * 1000
                   >= Outage.tracker.velocity * (1000 - 20 * seconds)

\* C32: the magnitude buffer holds at most 20 entries, the GPS reliability
\* window at most 10 fixes, the display-smoothing buffer at most 5 values,
\* and every entry of the launch buffer is less than 2 s older than its
\* newest entry
C32_BuffersBounded ==
    /\ Len(tracker.accelerationBuffer) <= 20
    /\ Len(tracker.gpsSpeedHistory) <= 10
    /\ Len(tracker.velocityBuffer) <= 5
    /\ \A i \in 1..Len(tracker.launchAccelerationBuffer) :
           tracker.launchAccelerationBuffer[
               Len(tracker.launchAccelerationBuffer)].timestamp
             - tracker.launchAccelerationBuffer[i].timestamp < 2000

\* a sample has come with 20 magnitudes and 5 velocities buffered and has
\* aged an entry out of the launch buffer, after an eleventh fix
C32_BuffersTurnedOver ==
    /\ op.kind = "tick"
    /\ Len(prev.accelerationBuffer) = 20
    /\ Len(prev.velocityBuffer) = 5
    /\ obs.fixes > 10
    /\ Len(tracker.gpsSpeedHistory) = 10
    /\ Len(tracker.launchAccelerationBuffer) > 0
    /\ Len(tracker.launchAccelerationBuffer) <= Len(prev.launchAccelerationBuffer)
    /\ tracker.launchAccelerationBuffer[Len(tracker.launchAccelerationBuffer)]
           # prev.launchAccelerationBuffer[Len(prev.launchAccelerationBuffer)]

\* C33: while the engine is running on a device with geolocation, a GPS
\* watch is subscribed
C33_RunningHasWatch ==
    (tracker.isRunning /\ tracker.gpsAvailable) => tracker.gpsWatchId

\* C34: at most one startRun call is awaiting calibration at a time, and the
\* run-start reset is not executed on an engine that is already running
\* (a step other than a startRun call that finds the engine running and
\* leaves it running leaves the start time of the run alone)
C34_StartRunIdempotent ==
    [][/\ Len(pending') <= 1
       /\ (tracker.isRunning /\ tracker'.isRunning /\ op'.kind # "start")
              => tracker'.runStartTime = tracker.runStartTime]_vars

\* the run after the tick just processed, had its sample been handed to
\* updateMetrics with the gate's classification
AsGated ==
    LET f == Filtered(prev, op.data)
    IN  updateMetrics(f.t, [f.out EXCEPT !.isMoving = f.t.isMoving], now)

\* C35: a tick of a run whose sample was rejected as a spike while the gate
\* is Moving leaves the central estimate (speeds, sigma, distances,
\* stationary time) as a tick whose sample is classified moving leaves it
C35_SpikeTickUsesGate ==
    (Rejected /\ prev.isRunning /\ tracker.isMoving)
        => FusedState(tracker) = FusedState(AsGated)

\* C36: a step that finds the engine calibrated leaves it calibrated, and a
\* startRun call on a calibrated engine opens no calibration window: the
\* run begins within the call
C36_CalibratedLatch ==
    [][tracker.isCalibrated =>
          /\ tracker'.isCalibrated
          /\ op'.kind = "start" => (pending' = pending /\ tracker'.isRunning)]_vars

\* startRun has been called on an engine that was calibrated in an earlier
\* run, after that run was stopped or reset
C36_StartedCalibrated ==
    /\ op.kind = "start"
    /\ prev.isCalibrated
    /\ ~prev.wasMovingAtStart
    /\ prev.runStartTime > 0
    /\ tracker.isRunning

\* the target of a speed checkpoint on a scale common to both units: km/h
\* are 0.621371 mph (line 961; the factor kept to 4 digits)
TargetOnOneScale(c) ==
    IF c.unit = "kph" THEN c.target * 6214 ELSE c.target * 10000

\* C37: while a run is on, a speed checkpoint is achieved whenever one with
\* a target at least as high is ("60-100mph" exactly when "0-100mph"), and
\* a distance milestone whenever one with a target at least as far is
C37_AchievedDownwardClosed ==
    tracker.isRunning =>
        /\ \A i, j \in 1..Len(SpeedTargets) :
               (/\ TargetOnOneScale(SpeedTargets[i]) <= TargetOnOneScale(SpeedTargets[j])
                /\ SpeedTargets[j].id \in tracker.speedAchieved)
                   => SpeedTargets[i].id \in tracker.speedAchieved
        /\ \A i, j \in 1..Len(DistanceTargets) :
               (/\ DistanceTargets[i].target <= DistanceTargets[j].target
                /\ DistanceTargets[j].id \in tracker.runDistanceAchievements)
                   => DistanceTargets[i].id \in tracker.runDistanceAchievements

\* a tick of a run that has passed 100 mph but not 150 mph has crossed the
\* eighth of a mile
C37_SomeAchieved ==
    /\ op.kind = "tick"
    /\ tracker.isRunning
    /\ "0-100mph" \in tracker.speedAchieved
    /\ "60-100mph" \in tracker.speedAchieved
    /\ "0-150mph" \notin tracker.speedAchieved
    /\ tracker.runDistanceAchievements = {"1/8mile"}
    /\ prev.runDistanceAchievements = {}

\* C38: a fix of a run does not decrease the GPS distance and adds less
\* than 100 m to it, and a fix that finds no position recorded during the
\* run (none at all, or one from before the run began) adds nothing
C38_GpsDistanceWithinRun ==
    (op.kind = "gps" /\ prev.isRunning) =>
        /\ tracker.gpsDistance >= prev.gpsDistance
        /\ tracker.gpsDistance - prev.gpsDistance < 100000
        /\ (\/ prev.lastGpsPosition = <<>>
            \/ prev.lastGpsPosition[1].timestamp < prev.runStartTime)
               => tracker.gpsDistance = prev.gpsDistance

\* C39: a tick of a run that treats GPS as reliable comes less than 2 s
\* after the newest fix that carried a speed (the newest entry of the
\* reliability window, which only such fixes enter)
C39_ReliableNeedsFreshSpeed ==
    (/\ op.kind = "tick"
     /\ op.facts.path \in {"full", "hardzero"}
     /\ prev.gpsSpeedHistory # <<>>
     /\ GpsReliable(prev, op.data.timestamp))
        => op.data.timestamp
               - prev.gpsSpeedHistory[Len(prev.gpsSpeedHistory)].timestamp < 2000

====
